---- MODULE Spec2Model ----
(***************************************************************************)
(* Model of the windwatts_data clients:                                    *)
(*   client_base.query_athena       submit / poll / fetch engine           *)
(*   WindwattsWTKClient             cached raw table and memoized averages *)
(*   WTKLedClientFullHourly         statistic queries on the full table    *)
(*                                                                         *)
(* Python values are records with a `type` field (None is NoneType).       *)
(* Durations are counted in tenths of a second (0.1 s = 1).                *)
(* Wind speeds are counted in hundredths (5.5 = 550).                      *)
(***************************************************************************)
EXTENDS Integers, Sequences, FiniteSets, TLC

VARIABLES
    \* ---- one query_athena call (client_base.py:165-250)
    q_pc,            \* position in query_athena
    q_args,          \* query_string, convert_to_dataframe, return_result_location_only, reduce_poll
    remote,          \* what the remote job produces: result location, result pages, result object
    status,          \* local `status`
    response,        \* last get_query_execution response (State, StateChangeReason)
    wait_time,       \* local `wait_time`
    sleeps,          \* durations passed to time.sleep, in order
    requests,        \* remote requests issued by this call, in order
    columns,         \* local `columns` of the raw-rows branch
    all_rows,        \* local `all_rows` of the raw-rows branch
    q_result,        \* how the call ended: a returned value or a raised exception
    q_error,         \* the exception raised inside the try block, if any
    \* ---- client_base fields shared by both clients
    athena_table_name,
    column_names,
    column_mapping,
    \* ---- WindwattsWTKClient fields (windwatts_wtk_client.py:11-18)
    df,
    current_lat,
    current_long,
    current_height,
    global_avg,
    yearly_avg,
    monthly_avg,
    hourly_avg,
    \* ---- the last public operation called and how it ended
    lastCall

qvars == <<q_pc, q_args, remote, status, response, wait_time, sleeps, requests,
           columns, all_rows, q_result, q_error>>
bvars == <<athena_table_name, column_names, column_mapping>>
svars == <<df, current_lat, current_long, current_height,
           global_avg, yearly_avg, monthly_avg, hourly_avg>>
vars == <<qvars, bvars, svars, lastCall>>

----------------------------------------------------------------------------
(* Bounds of the model *)

\* pending (QUEUED / RUNNING) statuses one job may report before it ends
MaxPolls == 7
\* pages of one paginated result
MaxPages == 2
\* remote executions one session is followed for
MaxExecutions == 3

----------------------------------------------------------------------------
(* Python values *)

None == [type |-> "NoneType"]
IsNone(x) == x.type = "NoneType"
PyStr(parts) == [type |-> "str", v |-> parts]

Min(a, b) == IF a <= b THEN a ELSE b

Range(seq) == {seq[i] : i \in DOMAIN seq}

Count(seq, x) == Cardinality({i \in DOMAIN seq : seq[i] = x})

\* an exception object: its class and its str(), as the sequence of its fragments
Exc(cls, msg) == [type |-> cls, msg |-> msg]

Returned(value) == [kind |-> "return", value |-> value]
Raised(e) == [kind |-> "raise", exc |-> e]
Pending == [kind |-> "pending"]

----------------------------------------------------------------------------
(* The remote service *)

\* loop conditions that keep polling a job seen as failed or cancelled
PendingStatesWithFailed == {"RUNNING", "QUEUED", "FAILED"}
PendingStatesWithCancelled == {"RUNNING", "QUEUED", "CANCELLED"}
PendingStates == {"RUNNING", "QUEUED"}
TerminalStates == {"SUCCEEDED", "FAILED", "CANCELLED"}

\* service-reported StateChangeReason strings
Reasons == {"SYNTAX_ERROR: line 1:8", "Insufficient permissions"}

\* errors a boto3 request can raise
AwsErrors == {Exc("ClientError", <<"ThrottlingException">>),
              Exc("BotoCoreError", <<"EndpointConnectionError">>)}
\* other errors raised while handling a response
OtherErrors == {Exc("KeyError", <<"'QueryExecutionId'">>)}
RequestErrors == AwsErrors \cup OtherErrors

ResultLocations == {"s3://out-bucket/results/q1.csv", "s3://out-bucket/results/q2.csv"}

----------------------------------------------------------------------------
(* The datasets: the packaged location records and the remote table *)

\* location_gdf: the packaged location records (index, x = longitude, y = latitude),
\* coordinates in tenths of a degree
location_gdf == << [index |-> "000A", x |-> 0,   y |-> 0],
                   [index |-> "000B", x |-> 10,  y |-> 10],
                   [index |-> "000C", x |-> 100, y |-> 100] >>

\* the columns DESCRIBE reports for the default table, in declared order
DescribedColumns == <<"windspeed_30m", "winddirection_30m", "windspeed_60m",
                      "year", "mohr", "index">>

DefaultTable == "wtk_athena_table"
AltTable == "alt_athena_table"

\* rows of the remote table, per location index: (year, mohr, windspeed_30m,
\* winddirection_30m, windspeed_60m); location 000C has no rows
TableRow(y, mh, w30, d30, w60) ==
    [year |-> y, mohr |-> mh, windspeed_30m |-> w30, winddirection_30m |-> d30,
     windspeed_60m |-> w60]

RemoteRows(index) ==
    CASE index = "000A" -> << TableRow(2020, 100, 500, 9000, 700),
                             TableRow(2020, 201, 600, 9000, 800),
                             TableRow(2021, 100, 1000, 18000, 900) >>
      [] index = "000B" -> << TableRow(2020, 100, 300, 27000, 400),
                             TableRow(2021, 201, 400, 27000, 600),
                             TableRow(2021, 202, 301, 0, 500) >>
      [] OTHER -> << >>

\* a query string: DESCRIBE of a table, or the SELECT * ... AND index in ('<index>')
DescribeQuery(table) == [op |-> "DESCRIBE", table |-> table]
SelectQuery(table, index) == [op |-> "SELECT", table |-> table, index |-> index]

\* the CSV object the service writes for a query: a header and text records
CsvHeader == <<"windspeed_30m", "winddirection_30m", "windspeed_60m", "year", "mohr", "index">>
CsvRecord(r, index) == [c \in {CsvHeader[i] : i \in DOMAIN CsvHeader} |->
                          IF c = "index" THEN [text |-> index] ELSE [text |-> r[c]]]
CsvObject(query) ==
    IF query.op = "SELECT"
    THEN [header |-> CsvHeader,
          records |-> [i \in DOMAIN RemoteRows(query.index) |->
                          CsvRecord(RemoteRows(query.index)[i], query.index)]]
    ELSE [header |-> <<"col_name">>, records |-> << >>]

\* pages of get_query_results: ColumnInfo labels and Rows of Data fields; a field
\* holds VarCharValue, or nothing for a null cell
Field(s) == [VarCharValue |-> s]
NullField == << >>
FirstPage == [ColumnInfo |-> <<"col_name">>,
              Rows |-> << [Data |-> <<Field("windspeed_30m\tdouble")>>],
                          [Data |-> <<Field("index\tstring")>>] >>]
LaterPage == [ColumnInfo |-> <<"col_name">>,
              Rows |-> << [Data |-> <<NullField>>],
                          [Data |-> <<Field("varset\tstring")>>] >>]
ResultPages(n) == [i \in 1..n |-> IF i = 1 THEN FirstPage ELSE LaterPage]

\* the rows of the first n pages, in order
RECURSIVE RowsOfPages(_, _)
RowsOfPages(pages, n) == IF n = 0 THEN << >> ELSE RowsOfPages(pages, n - 1) \o pages[n].Rows

\* what one submitted job can turn out to produce
RemoteJobs(query) ==
    { [location |-> loc, pages |-> ResultPages(n), object |-> CsvObject(query)] :
        loc \in ResultLocations, n \in 1..MaxPages }
NoJob == [location |-> "", pages |-> << >>, object |-> [header |-> << >>, records |-> << >>]]

----------------------------------------------------------------------------
(* client_base.query_athena, client_base.py:165-250 *)

\* initial poll interval: 0.5 s, or 0.1 s with reduce_poll (lines 192-195)
DefaultWait == 5
ReducedWait == 1
\* the backoff cap: 5 s (line 201)
MaxWait == 50

InitialWait(reduce_poll) == IF reduce_poll THEN ReducedWait ELSE DefaultWait

\* wait_time = min(wait_time * 2, 5) (line 201)
NextWaitUncapped(w) == w * 2
NextWait(w) == Min(w * 2, MaxWait)

\* str(e) of an exception, as fragments
StrOf(e) == e.msg

\* the two except clauses that close the try block (lines 246-250)
ExceptHandlerAwsOnly(e) ==
    IF e.type \in {"BotoCoreError", "ClientError"}
    THEN Exc("RuntimeError", <<"AWS error occurred: ">> \o StrOf(e))
    ELSE e
ExceptHandler(e) ==
    IF e.type \in {"BotoCoreError", "ClientError"}
    THEN Exc("RuntimeError", <<"AWS error occurred: ">> \o StrOf(e))
    ELSE Exc("RuntimeError", <<"Unexpected error: ">> \o StrOf(e))

\* what lines 236-244 raise inside the try block for a job that did not succeed
FailureNoReason(resp) ==
    IF resp.State = "FAILED"
    THEN Exc("RuntimeError", <<"Athena query failed.">>)
    ELSE IF resp.State = "CANCELLED"
    THEN Exc("RuntimeError", <<"Athena query was cancelled.">>)
    ELSE Exc("RuntimeError", <<"Athena query ended with unexpected status: ", resp.State>>)
FailureOf(resp) ==
    IF resp.State = "FAILED"
    THEN IF "StateChangeReason" \in DOMAIN resp
         THEN Exc("RuntimeError", <<"Athena query failed with error: ", resp.StateChangeReason>>)
         ELSE Exc("KeyError", <<"'StateChangeReason'">>)
    ELSE IF resp.State = "CANCELLED"
    THEN Exc("RuntimeError", <<"Athena query was cancelled.">>)
    ELSE Exc("RuntimeError", <<"Athena query ended with unexpected status: ", resp.State>>)

\* the branch taken on SUCCEEDED (lines 208, 212, 228)
SuccessBranchTableFirst(args) ==
    IF args.convert_to_dataframe THEN "get_object"
    ELSE IF args.return_result_location_only THEN "location"
    ELSE "paginate"
SuccessBranch(args) ==
    IF args.return_result_location_only THEN "location"
    ELSE IF ~args.convert_to_dataframe THEN "paginate"
    ELSE "get_object"

\* the string returned in place of the data (line 209)
LocationDescriptor(result_location) ==
    PyStr(<<"File is too large to return at runtime. Download the result from ",
            result_location, ".">>)

\* field.get('VarCharValue', None) (line 223)
CellOf(field) == IF "VarCharValue" \in DOMAIN field THEN PyStr(field.VarCharValue) ELSE None
\* the data list built from all_rows (lines 222-225)
DataOf(rows) == [i \in DOMAIN rows |-> [j \in DOMAIN rows[i].Data |-> CellOf(rows[i].Data[j])]]
RawResult(cols, rows) == [type |-> "dict", columns |-> cols, data |-> DataOf(rows)]

\* pd.read_csv(..., dtype={'index': str}) and pd.concat of the chunks (lines 231-232):
\* the index column stays text, every other column is parsed as a number
ParseCell(c, cell) == IF c = "index" THEN PyStr(cell.text) ELSE cell.text
read_csv(object) ==
    [type |-> "DataFrame",
     columns |-> object.header,
     rows |-> [i \in DOMAIN object.records |->
                 [c \in DOMAIN object.records[i] |-> ParseCell(c, object.records[i][c])]]]

Queries == {DescribeQuery(DefaultTable)} \cup
           {SelectQuery(DefaultTable, location_gdf[i].index) : i \in DOMAIN location_gdf}

QueryArgs == [query_string : Queries, convert_to_dataframe : BOOLEAN,
              return_result_location_only : BOOLEAN, reduce_poll : BOOLEAN]

\* an exception raised inside the try block leaves query_athena through the except
\* clauses (lines 246-250)
QueryEndsRetry(e) ==
    /\ q_error' = e
    /\ q_pc' = "start"
    /\ UNCHANGED q_result
QueryEnds(e) ==
    /\ q_error' = e
    /\ q_result' = Raised(ExceptHandler(e))
    /\ q_pc' = "done"

\* a caller enters query_athena
QueryCall ==
    /\ q_pc \in {"idle", "done"}
    /\ \E args \in QueryArgs : q_args' = args
    /\ q_pc' = "start"
    /\ remote' = NoJob
    /\ status' = "" /\ response' = [State |-> ""]
    /\ wait_time' = 0 /\ sleeps' = << >> /\ requests' = << >>
    /\ columns' = None /\ all_rows' = << >>
    /\ q_result' = Pending /\ q_error' = None
    /\ UNCHANGED <<bvars, svars, lastCall>>

\* lines 179-195: submit the query, then set status and wait_time
StartQueryExecution ==
    /\ q_pc = "start"
    /\ requests' = Append(requests, "start_query_execution")
    /\ \/ /\ \E e \in RequestErrors : QueryEnds(e)
          /\ UNCHANGED <<remote, status, wait_time>>
       \/ /\ \E job \in RemoteJobs(q_args.query_string) : remote' = job
          /\ status' = "RUNNING"
          /\ wait_time' = InitialWait(q_args.reduce_poll)
          /\ q_pc' = "poll"
          /\ UNCHANGED <<q_result, q_error>>
    /\ UNCHANGED <<q_args, response, sleeps, columns, all_rows, bvars, svars, lastCall>>

\* the responses get_query_execution can give
StatusResponses ==
    {[State |-> s] : s \in PendingStates \cup TerminalStates} \cup
    {[State |-> "FAILED", StateChangeReason |-> r] : r \in Reasons}

\* lines 196-199: one status request of the poll loop
GetQueryExecution ==
    /\ q_pc = "poll"
    /\ status \in PendingStates
    /\ requests' = Append(requests, "get_query_execution")
    /\ \/ /\ \E e \in RequestErrors : QueryEnds(e)
          /\ UNCHANGED <<status, response>>
       \/ /\ \E resp \in StatusResponses :
                /\ resp.State \in PendingStates => Len(sleeps) < MaxPolls
                /\ response' = resp
                /\ status' = resp.State
                /\ q_pc' = IF resp.State \in PendingStates THEN "sleep" ELSE "completed"
          /\ UNCHANGED <<q_result, q_error>>
    /\ UNCHANGED <<q_args, remote, wait_time, sleeps, columns, all_rows, bvars, svars, lastCall>>

\* a sleep the call does not wake from
SleepNoWake ==
    /\ q_pc = "sleep"
    /\ UNCHANGED vars

\* lines 200-201: sleep, then double the interval up to the cap
Sleep ==
    /\ q_pc = "sleep"
    /\ sleeps' = Append(sleeps, wait_time)
    /\ wait_time' = NextWait(wait_time)
    /\ q_pc' = "poll"
    /\ UNCHANGED <<q_args, remote, status, response, requests, columns, all_rows, q_result,
                   q_error, bvars, svars, lastCall>>

\* lines 204-212 and 236-244: the loop has ended with a status that is not pending
Completed ==
    /\ q_pc = "completed"
    /\ IF status = "SUCCEEDED"
       THEN LET branch == SuccessBranch(q_args) IN
            IF branch = "location"
            THEN /\ q_result' = Returned(LocationDescriptor(remote.location))
                 /\ q_pc' = "done"
                 /\ UNCHANGED q_error
            ELSE /\ q_pc' = branch
                 /\ UNCHANGED <<q_result, q_error>>
       ELSE QueryEnds(FailureOf(response))
    /\ UNCHANGED <<q_args, remote, status, response, wait_time, sleeps, requests,
                   columns, all_rows, bvars, svars, lastCall>>

\* lines 213-226: one page of the paginator; after the last page the raw result is returned
GetQueryResults ==
    /\ q_pc = "paginate"
    /\ requests' = Append(requests, "get_query_results")
    /\ \/ /\ \E e \in RequestErrors : QueryEnds(e)
          /\ UNCHANGED <<columns, all_rows>>
       \/ LET n == Count(requests, "get_query_results") + 1
              page == remote.pages[n]
              cols == IF IsNone(columns)
                      THEN [type |-> "list", v |-> page.ColumnInfo] ELSE columns
              rows == all_rows \o page.Rows
          IN /\ columns' = cols
             /\ all_rows' = rows
             /\ IF n = Len(remote.pages)
                THEN /\ q_result' = Returned(RawResult(cols, rows))
                     /\ q_pc' = "done"
                ELSE UNCHANGED <<q_result, q_pc>>
             /\ UNCHANGED q_error
    /\ UNCHANGED <<q_args, remote, status, response, wait_time, sleeps, bvars, svars, lastCall>>

\* errors of parsing the fetched object (pandas)
ParseErrors == {Exc("ParserError", <<"Error tokenizing data">>)}

\* lines 229-234: fetch the result object and parse it
GetObject ==
    /\ q_pc = "get_object"
    /\ requests' = Append(requests, "get_object")
    /\ \/ \E e \in RequestErrors \cup ParseErrors : QueryEnds(e)
       \/ /\ q_result' = Returned(read_csv(remote.object))
          /\ q_pc' = "done"
          /\ UNCHANGED q_error
    /\ UNCHANGED <<q_args, remote, status, response, wait_time, sleeps, columns, all_rows,
                   bvars, svars, lastCall>>

----------------------------------------------------------------------------
(* client_base.__init__ and the schema, client_base.py:57-65, 92-108 *)

\* the height a column name encodes (lines 99-102), or NoHeight where int() raises
\* ValueError
NoHeight == -1
ParseHeight(col) ==
    CASE col = "pressure_0m" -> 0
      [] col \in {"windspeed_30m", "winddirection_30m"} -> 30
      [] col = "windspeed_60m" -> 60
      [] col = "windspeed_100m" -> 100
      [] OTHER -> NoHeight

\* _initialize_column_mapping: the columns grouped by height, in declared order
InitializeColumnMapping(names) ==
    LET heights == {ParseHeight(names[i]) : i \in DOMAIN names} \ {NoHeight}
        AtHeight(h) == LET Test(c) == ParseHeight(c) = h IN SelectSeq(names, Test)
    IN [h \in heights |-> AtHeight(h)]

\* a dict value: column_mapping is None or the dict of the columns by height
Mapping(f) == [type |-> "dict", v |-> f]

InitBase ==
    /\ athena_table_name = DefaultTable
    /\ column_names = DescribedColumns
    /\ column_mapping = Mapping(InitializeColumnMapping(DescribedColumns))

\* WindwattsWTKClient.__init__ (windwatts_wtk_client.py:11-18)
InitSession ==
    /\ df = None
    /\ current_lat = None
    /\ current_long = None
    /\ current_height = None
    /\ global_avg = None
    /\ yearly_avg = None
    /\ monthly_avg = None
    /\ hourly_avg = None

NoCall == [op |-> "none"]

InitQuery ==
    /\ q_pc = "idle"
    /\ q_args = [query_string |-> DescribeQuery(DefaultTable), convert_to_dataframe |-> TRUE,
                 return_result_location_only |-> FALSE, reduce_poll |-> FALSE]
    /\ remote = NoJob
    /\ status = "" /\ response = [State |-> ""]
    /\ wait_time = 0 /\ sleeps = << >> /\ requests = << >>
    /\ columns = None /\ all_rows = << >>
    /\ q_result = Pending /\ q_error = None

----------------------------------------------------------------------------
(* query_athena as its callers see it: the value returned or the exception raised, given
   the job the service runs and the exception (or None) raised inside the try block *)

Faults == RequestErrors \cup ParseErrors \cup
          {FailureOf(r) : r \in {x \in StatusResponses : x.State \in {"FAILED", "CANCELLED"}}}

query_athena(args, job, fault) ==
    IF ~IsNone(fault) THEN Raised(ExceptHandler(fault))
    ELSE CASE SuccessBranch(args) = "location" -> Returned(LocationDescriptor(job.location))
           [] SuccessBranch(args) = "paginate" ->
                Returned(RawResult([type |-> "list", v |-> job.pages[1].ColumnInfo],
                                   RowsOfPages(job.pages, Len(job.pages))))
           [] OTHER -> Returned(read_csv(job.object))

----------------------------------------------------------------------------
(* client_base: nearest location and table switching *)

Dist2(rec, lat, long) == (rec.x - long) * (rec.x - long) + (rec.y - lat) * (rec.y - lat)

\* the mutation of find_nearest_location: the first record, whatever the query point
find_first_location(lat, long) == {location_gdf[1].index}
\* find_nearest_location (lines 128-143): kdtree.query([user_long, user_lat]) gives the
\* position of a record at the smallest Euclidean distance; for an exact tie any of the
\* closest records
find_nearest_location(lat, long) ==
    {location_gdf[i].index : i \in
        {i \in DOMAIN location_gdf :
            \A j \in DOMAIN location_gdf :
                Dist2(location_gdf[i], lat, long) <= Dist2(location_gdf[j], lat, long)}}

\* list.remove(x): drops the first occurrence
RemoveFirst(seq, x) ==
    LET first == CHOOSE i \in DOMAIN seq : seq[i] = x /\ \A j \in 1..(i - 1) : seq[j] # x
    IN [i \in 1..(Len(seq) - 1) |-> IF i < first THEN seq[i] ELSE seq[i + 1]]

\* a reset that appends 'index' without looking for it first
_reset_index_appending(self, lat, long) ==
    IF ~IsNone(lat) /\ ~IsNone(long)
    THEN [self EXCEPT !.athena_table_name = DefaultTable,
                      !.column_names = Append(self.column_names, "index")]
    ELSE [self EXCEPT !.athena_table_name = AltTable,
                      !.column_names = IF "index" \in Range(self.column_names)
                                       THEN RemoveFirst(self.column_names, "index")
                                       ELSE self.column_names]

\* _reset_index_ (lines 303-320), column_names being initialized
_reset_index_(self, lat, long) ==
    IF ~IsNone(lat) /\ ~IsNone(long)
    THEN [self EXCEPT !.athena_table_name = DefaultTable,
                      !.column_names = IF "index" \notin Range(self.column_names)
                                       THEN Append(self.column_names, "index")
                                       ELSE self.column_names]
    ELSE [self EXCEPT !.athena_table_name = AltTable,
                      !.column_names = IF "index" \in Range(self.column_names)
                                       THEN RemoveFirst(self.column_names, "index")
                                       ELSE self.column_names]

----------------------------------------------------------------------------
(* WindwattsWTKClient, windwatts_wtk_client.py *)

\* the object: its fields as a record
Self == [athena_table_name |-> athena_table_name, column_names |-> column_names,
         column_mapping |-> column_mapping,
         df |-> df, current_lat |-> current_lat, current_long |-> current_long,
         current_height |-> current_height, global_avg |-> global_avg,
         yearly_avg |-> yearly_avg, monthly_avg |-> monthly_avg, hourly_avg |-> hourly_avg]

PyInt(n) == [type |-> "int", v |-> n]
PyFloat(n) == [type |-> "float", v |-> n]
PyBool(b) == [type |-> "bool", v |-> b]
\* isinstance(x, (float, int))
IsNumber(x) == x.type \in {"int", "float"}
\* a == b on numbers and None
PyEq(a, b) == IF IsNumber(a) /\ IsNumber(b) THEN a.v = b.v ELSE a = b

\* how an operation ends: the object after it, what it returned or raised, how many remote
\* query executions it made, and what its fetch_data step did
Outcome(self, result, executions, fetch) ==
    [self |-> self, result |-> result, executions |-> executions, fetch |-> fetch]

LatError == Exc("ValueError", <<"Latitude (lat) is required and must be a float or int.">>)
LongError == Exc("ValueError", <<"Longitude (long) is required and must be a float or int.">>)

\* pre_check (lines 20-35): the exception raised, or None
\* a check that does not look the height up in the height map
pre_check_without_lookup(self, lat, long, height) ==
    IF IsNone(lat) \/ ~IsNumber(lat) THEN LatError
    ELSE IF IsNone(long) \/ ~IsNumber(long) THEN LongError
    ELSE IF (IsNone(height) \/ (IsNumber(height) /\ height.v = 0)) \/ height.type # "int"
    THEN Exc("TypeError", <<"Parameter height of int type is required.">>)
    ELSE None
pre_check(self, lat, long, height) ==
    IF IsNone(lat) \/ ~IsNumber(lat) THEN LatError
    ELSE IF IsNone(long) \/ ~IsNumber(long) THEN LongError
    ELSE IF (IsNone(height) \/ (IsNumber(height) /\ height.v = 0)) \/ height.type # "int"
    THEN Exc("TypeError", <<"Parameter height of int type is required.">>)
    ELSE IF height.v \notin DOMAIN self.column_mapping.v
    THEN Exc("ValueError", <<"Invalid height. Use get_column_names() method to see valid heights in the data.">>)
    ELSE None

\* reset_averages_if_height_changes (lines 37-44)
reset_keeping_hourly(self, height) ==
    IF ~PyEq(self.current_height, height)
    THEN [self EXCEPT !.global_avg = None, !.yearly_avg = None, !.monthly_avg = None,
                      !.current_height = height]
    ELSE self
reset_averages_if_height_changes(self, height) ==
    IF ~PyEq(self.current_height, height)
    THEN [self EXCEPT !.global_avg = None, !.yearly_avg = None, !.monthly_avg = None,
                      !.hourly_avg = None, !.current_height = height]
    ELSE self

\* the test of line 67 (and of line 102): the stored table is for these coordinates
is_up_to_date_never(self, lat, long) == FALSE
is_up_to_date_table_only(self, lat, long) == ~IsNone(self.df)
is_up_to_date_lat_only(self, lat, long) ==
    ~IsNone(self.df) /\ PyEq(self.current_lat, lat)
is_up_to_date(self, lat, long) ==
    ~IsNone(self.df) /\ PyEq(self.current_lat, lat) /\ PyEq(self.current_long, long)

\* a fetch that stores the table and leaves the stored coordinates as they were
fetch_data_keeping_location(self, lat, long, index, job, fault) ==
    IF IsNone(lat) \/ ~IsNumber(lat) THEN Outcome(self, Raised(LatError), 0, "none")
    ELSE IF IsNone(long) \/ ~IsNumber(long) THEN Outcome(self, Raised(LongError), 0, "none")
    ELSE IF is_up_to_date(self, lat, long) THEN Outcome(self, Returned(PyBool(FALSE)), 0, "hit")
    ELSE LET s1 == _reset_index_(self, lat, long)
             query == SelectQuery(s1.athena_table_name, index)
             r == query_athena([query_string |-> query, convert_to_dataframe |-> TRUE,
                                return_result_location_only |-> FALSE, reduce_poll |-> TRUE],
                               job, fault)
         IN IF r.kind = "raise" THEN Outcome(s1, r, 1, "failed")
            ELSE Outcome([s1 EXCEPT !.df = r.value], Returned(PyBool(TRUE)), 1, "fetched")

\* fetch_data (lines 46-82); index is the nearest location found, job and fault are what
\* the remote query turns out to do
fetch_data(self, lat, long, index, job, fault) ==
    IF IsNone(lat) \/ ~IsNumber(lat) THEN Outcome(self, Raised(LatError), 0, "none")
    ELSE IF IsNone(long) \/ ~IsNumber(long) THEN Outcome(self, Raised(LongError), 0, "none")
    ELSE IF is_up_to_date(self, lat, long) THEN Outcome(self, Returned(PyBool(FALSE)), 0, "hit")
    ELSE LET s1 == _reset_index_(self, lat, long)
             query == SelectQuery(s1.athena_table_name, index)
             r == query_athena([query_string |-> query, convert_to_dataframe |-> TRUE,
                                return_result_location_only |-> FALSE, reduce_poll |-> TRUE],
                               job, fault)
         IN IF r.kind = "raise" THEN Outcome(s1, r, 1, "failed")
            ELSE Outcome([s1 EXCEPT !.df = r.value, !.current_lat = lat, !.current_long = long],
                         Returned(PyBool(TRUE)), 1, "fetched")

\* get_data (lines 84-106)
get_data(self, lat, long, index, job, fault) ==
    IF is_up_to_date(self, lat, long) THEN Outcome(self, Returned(self.df), 0, "hit")
    ELSE LET f == fetch_data(self, lat, long, index, job, fault)
         IN IF f.result.kind = "raise" THEN f
            ELSE Outcome(f.self, Returned(f.self.df), f.executions, f.fetch)

\* ---- the averages

RECURSIVE SumOf(_, _, _)
SumOf(rows, col, n) == IF n = 0 THEN 0 ELSE SumOf(rows, col, n - 1) + rows[n][col]

\* round(x, 2) of x = num / den hundredths: the nearest hundredth, a tie going to the
\* even one
Round2(num, den) ==
    LET q == num \div den
        r == num % den
    IN IF 2 * r < den THEN q
       ELSE IF 2 * r > den THEN q + 1
       ELSE IF q % 2 = 0 THEN q ELSE q + 1

\* Series.mean() rounded to 2 decimals
Mean(rows, col) == Round2(SumOf(rows, col, Len(rows)), Len(rows))

RECURSIVE SortedSeq(_)
SortedSeq(S) ==
    IF S = {} THEN << >>
    ELSE LET least == CHOOSE x \in S : \A y \in S : x <= y
         IN <<least>> \o SortedSeq(S \ {least})

\* df.groupby(key)[col].mean().reset_index().round(2).sort_values(by=key).to_dict('records')
GroupedMeans(rows, key, col) ==
    LET keys == SortedSeq({rows[i][key] : i \in DOMAIN rows})
        Group(k) == LET InGroup(row) == row[key] = k IN SelectSeq(rows, InGroup)
    IN [type |-> "list",
        v |-> [i \in DOMAIN keys |-> (key :> keys[i]) @@ (col :> Mean(Group(keys[i]), col))]]

\* f'windspeed_{height}m'
WindspeedColumn(h) == "windspeed_" \o ToString(h) \o "m"

\* the group key of a granularity, and the column the method derives for it from mohr
\* (lines 248, 302)
GroupKey(g) ==
    CASE g = "yearly_avg" -> "year"
      [] g = "monthly_avg" -> "month"
      [] g = "hourly_avg" -> "hour"
      [] OTHER -> ""
DeriveSwapped(g, mohr) == IF g = "monthly_avg" THEN mohr % 100 ELSE mohr \div 100
Derive(g, mohr) == IF g = "monthly_avg" THEN mohr \div 100 ELSE mohr % 100

\* self.df['month'] = self.df['mohr'] // 100, self.df['hour'] = self.df['mohr'] % 100
WithDerivedColumn(g, table) ==
    IF g \notin {"monthly_avg", "hourly_avg"} THEN table
    ELSE [table EXCEPT
            !.columns = IF GroupKey(g) \in Range(table.columns) THEN table.columns
                        ELSE Append(table.columns, GroupKey(g)),
            !.rows = [i \in DOMAIN table.rows |->
                        (GroupKey(g) :> Derive(g, table.rows[i]["mohr"])) @@ table.rows[i]]]

\* the average of one granularity over a table (lines 146, 197, 251, 305)
Average(g, table, col) ==
    IF g = "global_avg" THEN PyFloat(Mean(table.rows, col))
    ELSE GroupedMeans(table.rows, GroupKey(g), col)

Dict(key, value) == [type |-> "dict", key |-> key, value |-> value]

Granularities == {"global_avg", "yearly_avg", "monthly_avg", "hourly_avg"}

\* fetch_global_avg_at_height, fetch_yearly_avg_at_height, fetch_monthly_avg_at_height,
\* fetch_hourly_avg_at_height (lines 129-152, 180-204, 232-258, 286-312), g naming the
\* memo field of the method
fetch_avg_at_height(g, self, lat, long, height, index, job, fault) ==
    LET e == pre_check(self, lat, long, height) IN
    IF ~IsNone(e) THEN Outcome(self, Raised(e), 0, "none")
    ELSE
    LET s1 == reset_averages_if_height_changes(self, height)
        f == fetch_data(s1, lat, long, index, job, fault)
    IN
    IF f.result.kind = "raise"
    THEN Outcome([f.self EXCEPT !.df = None],
                 Raised(Exc("RuntimeError", <<"Failed to fetch timeseries data.">>)),
                 f.executions, f.fetch)
    ELSE
    LET s2 == f.self
        is_data_fetched == f.result.value.v
    IN
    IF IsNone(s2.df) \/ Len(s2.df.rows) = 0
    THEN Outcome(s2, Raised(Exc("RuntimeError", <<"No data available after fetching.">>)),
                 f.executions, f.fetch)
    ELSE IF ~is_data_fetched /\ ~IsNone(s2[g])
    THEN Outcome(s2, Returned(Dict(g, s2[g])), f.executions, f.fetch)
    ELSE IF g \in {"monthly_avg", "hourly_avg"} /\ "mohr" \notin Range(s2.df.columns)
    THEN Outcome(s2, Raised(Exc("KeyError", <<"'mohr'">>)), f.executions, f.fetch)
    ELSE
    LET s3 == [s2 EXCEPT !.df = WithDerivedColumn(g, s2.df)]
        col == WindspeedColumn(height.v)
    IN
    IF col \notin Range(s3.df.columns) \/ GroupKey(g) \notin Range(s3.df.columns) \cup {""}
    THEN Outcome(s3, Raised(Exc("RuntimeError", <<"Failed to calculate ", g, " for ", col>>)),
                 f.executions, f.fetch)
    ELSE LET value == Average(g, s3.df, col)
         IN Outcome([s3 EXCEPT ![g] = value], Returned(Dict(g, value)), f.executions, f.fetch)

----------------------------------------------------------------------------
(* Spec: operations called one after another on one WindwattsWTKClient *)

\* arguments the callers pass: coordinates in tenths of a degree (the first two points
\* share their latitude and lie nearest to 000A and 000B, the third lies on 000C, which
\* has no rows), heights in metres
ValidPoints == { <<PyFloat(4), PyFloat(4)>>, <<PyFloat(4), PyFloat(12)>>,
                 <<PyFloat(100), PyFloat(100)>> }
ValidHeights == { PyInt(30), PyInt(60) }
\* arguments that pre_check and fetch_data reject
BadPoints == { <<None, PyFloat(4)>>, <<PyFloat(4), [type |-> "str"]>> }
BadHeights == { None, PyInt(45) }

PointArgs == ValidPoints \cup BadPoints
AvgArgs == (ValidPoints \X ValidHeights)
           \cup (BadPoints \X {PyInt(30)})
           \cup ({<<PyFloat(4), PyFloat(4)>>} \X BadHeights)

\* what the remote query of a fetch can turn out to do: succeed (None), or end in an
\* exception raised inside query_athena's try block
SessionFaults == {None, Exc("ClientError", <<"ThrottlingException">>)}

\* the job of a table-mode query: the result object is all that mode reads of it
TableJob(query) == CHOOSE job \in RemoteJobs(query) : TRUE

\* the object takes the fields of an outcome
Becomes(self) ==
    /\ athena_table_name' = self.athena_table_name
    /\ column_names' = self.column_names
    /\ column_mapping' = self.column_mapping
    /\ df' = self.df
    /\ current_lat' = self.current_lat
    /\ current_long' = self.current_long
    /\ current_height' = self.current_height
    /\ global_avg' = self.global_avg
    /\ yearly_avg' = self.yearly_avg
    /\ monthly_avg' = self.monthly_avg
    /\ hourly_avg' = self.hourly_avg

\* the nearest location of a point, for valid coordinates
NearestOf(pt) ==
    IF IsNumber(pt[1]) /\ IsNumber(pt[2]) THEN find_nearest_location(pt[1].v, pt[2].v)
    ELSE {""}

\* the table the remote query of a fetch for a location yields (lines 73-78)
RemoteTable(index) == read_csv(CsvObject(SelectQuery(DefaultTable, index)))

\* one call of a method on the object self, the remote answering as chosen
CallFetchData(self, pt, index, fault) ==
    fetch_data(self, pt[1], pt[2], index, TableJob(SelectQuery(DefaultTable, index)), fault)
CallGetData(self, pt, index, fault) ==
    get_data(self, pt[1], pt[2], index, TableJob(SelectQuery(DefaultTable, index)), fault)
CallFetchAvg(g, self, pt, height, index, fault) ==
    fetch_avg_at_height(g, self, pt[1], pt[2], height, index,
                        TableJob(SelectQuery(DefaultTable, index)), fault)

Called(o) ==
    /\ Becomes(o.self)
    /\ UNCHANGED <<qvars, lastCall>>

FetchData ==
    \E pt \in PointArgs : \E index \in NearestOf(pt) : \E fault \in SessionFaults :
    \E o \in {CallFetchData(Self, pt, index, fault)} : Called(o)

GetData ==
    \E pt \in PointArgs : \E index \in NearestOf(pt) : \E fault \in SessionFaults :
    \E o \in {CallGetData(Self, pt, index, fault)} : Called(o)

FetchAvg(g) ==
    \E a \in AvgArgs : \E index \in NearestOf(a[1]) : \E fault \in SessionFaults :
    \E o \in {CallFetchAvg(g, Self, a[1], a[2], index, fault)} : Called(o)

FetchGlobalAvgAtHeight == FetchAvg("global_avg")
FetchYearlyAvgAtHeight == FetchAvg("yearly_avg")
FetchMonthlyAvgAtHeight == FetchAvg("monthly_avg")
FetchHourlyAvgAtHeight == FetchAvg("hourly_avg")

Init == InitQuery /\ InitBase /\ InitSession /\ lastCall = NoCall

Next ==
    \/ FetchData
    \/ GetData
    \/ FetchGlobalAvgAtHeight
    \/ FetchYearlyAvgAtHeight
    \/ FetchMonthlyAvgAtHeight
    \/ FetchHourlyAvgAtHeight

Spec == Init /\ [][Next]_vars

----------------------------------------------------------------------------
(* WTKLedClientFullHourly, wtk_client_full_hourly.py *)

List(seq) == [type |-> "list", v |-> seq]
\* if x: of a str, and of a list, that may be None
TruthyStr(x) == ~IsNone(x) /\ x.v # ""
TruthyList(x) == ~IsNone(x) /\ Len(x.v) > 0

\* str.lower() and str.upper() of the ordering arguments
Lower(s) ==
    CASE s = "YEAR" -> "year"
      [] s = "AVG" -> "avg"
      [] s = "ASC" -> "asc"
      [] s = "DESC" -> "desc"
      [] s = "UP" -> "up"
      [] OTHER -> s
Upper(s) ==
    CASE s = "year" -> "YEAR"
      [] s = "asc" -> "ASC"
      [] s = "desc" -> "DESC"
      [] s = "up" -> "UP"
      [] OTHER -> s

\* f'{month:02}'
TwoDigits(n) == IF n < 10 THEN "0" \o ToString(n) ELSE ToString(n)

\* the column names in the order sorted() gives them
ColumnOrder == <<"index", "mohr", "pressure_0m", "winddirection_30m", "windspeed_100m",
                 "windspeed_30m", "windspeed_60m", "year">>
Sorted(S) == LET Test(c) == c \in S IN SelectSeq(ColumnOrder, Test)

Max(S) == CHOOSE x \in S : \A y \in S : y <= x
Least(S) == CHOOSE x \in S : \A y \in S : x <= y

\* find_relevant_columns (client_base.py lines 259-280): the columns of one height
ColumnsNear(mapping, height) ==
    IF height \in DOMAIN mapping THEN mapping[height]
    ELSE LET below == {h \in DOMAIN mapping : h <= height}
             above == {h \in DOMAIN mapping : h >= height}
             hasLower == below # {} /\ Max(below) # 0
             hasUpper == above # {} /\ Least(above) # 0
                         /\ (below = {} \/ Least(above) # Max(below))
         IN (IF hasLower THEN mapping[Max(below)] ELSE << >>)
            \o (IF hasUpper THEN mapping[Least(above)] ELSE << >>)
RECURSIVE RelevantColumns(_, _, _)
RelevantColumns(mapping, heights, n) ==
    IF n = 0 THEN << >>
    ELSE RelevantColumns(mapping, heights, n - 1) \o ColumnsNear(mapping, heights[n])
\* list(sorted(dict.fromkeys(relevant_columns))) (line 279)
NotDeduplicated(relevant_columns) == relevant_columns
Deduplicated(relevant_columns) == Sorted(Range(relevant_columns))
\* self._initialize_column_mapping() (lines 92-108)
\* a height map without any height
_initialize_empty_mapping(self) ==
    [self EXCEPT !.column_mapping = Mapping([h \in {} |-> << >>])]
_initialize_column_mapping(self) ==
    [self EXCEPT !.column_mapping = Mapping(InitializeColumnMapping(self.column_names))]
\* find_relevant_columns: the object after the call and the columns returned
find_relevant_columns(self, heights) ==
    LET s1 == IF IsNone(self.column_mapping) THEN _initialize_column_mapping(self) ELSE self
    IN [self |-> s1,
        columns |-> Deduplicated(RelevantColumns(s1.column_mapping.v, heights, Len(heights)))]

\* kdtree.query([user_long, user_lat], k): the positions of the k closest records,
\* closest first; a neighbour that does not exist is reported as the position after the
\* last record
kdtree_query(lat, long, k) ==
    LET D(i) == Dist2(location_gdf[i], lat, long)
        size == Len(location_gdf)
        m == Min(k, size)
        picks == {p \in [1..m -> DOMAIN location_gdf] :
                    /\ \A i \in 1..m : \A j \in 1..m : i < j => (p[i] # p[j] /\ D(p[i]) <= D(p[j]))
                    /\ \A r \in DOMAIN location_gdf :
                          (\A i \in 1..m : p[i] # r) => D(p[m]) <= D(r)}
    IN {[i \in 1..k |-> IF i <= m THEN p[i] ELSE size + 1] : p \in picks}

\* find_n_nearest_locations (client_base.py lines 145-162), n >= 1: for k = 1 the query
\* gives one position instead of a list of positions, so that ['index'] is one id, a
\* str, which has no tolist(); iloc raises for a position outside the records
find_n_nearest_locations(lat, long, n) ==
    IF n = 1
    THEN {Raised(Exc("AttributeError", <<"'str' object has no attribute 'tolist'">>))}
    ELSE {IF \E i \in DOMAIN p : p[i] \notin DOMAIN location_gdf
          THEN Raised(Exc("IndexError", <<"positional indexers are out-of-bounds">>))
          ELSE Returned(List([i \in DOMAIN p |-> location_gdf[p[i]].index])) :
            p \in kdtree_query(lat, long, n)}

\* one item of select_clause: its text, and its alias (the part after " AS ")
SelectItem(text, alias) == [text |-> text, alias |-> alias]
AliasOf(item) == IF item.alias = "" THEN item.text ELSE item.alias
StatisticItem(statistic, col) ==
    SelectItem(statistic \o "(" \o col \o ")", col \o "_" \o Lower(statistic))
MonthExpr == "SUBSTRING(CAST(time_index AS VARCHAR), 5, 2)"

\* the query string of the two statistics methods, clause by clause
StatisticQuery(select, table, where, group_by, order_by) ==
    [op |-> "SELECT", select |-> select, table |-> table, where |-> where,
     group_by |-> group_by, order_by |-> order_by]
InFilter(expr, values) == [expr |-> expr, values |-> values]
OrderBy(col, direction) == [col |-> col, direction |-> direction]

\* what the service produces for a statistics query: one column per select item
StatisticJob(query) ==
    [location |-> CHOOSE loc \in ResultLocations : TRUE,
     pages |-> ResultPages(1),
     object |-> [header |-> [i \in DOMAIN query.select |-> AliasOf(query.select[i])],
                 records |-> << >>]]

\* the object of this class: the fields of client_base
HSelf == [athena_table_name |-> athena_table_name, column_names |-> column_names,
          column_mapping |-> column_mapping]

\* how a call ends: the object after it, what it returned or raised, and the queries
\* it submitted to the service, in order
HOutcome(self, result, submitted) == [self |-> self, result |-> result, submitted |-> submitted]

RECURSIVE RemoveEach(_, _, _)
\* columns.remove(col) for each of the first n unwanted names, a missing one passed over
RemoveEach(seq, unwanted, n) ==
    IF n = 0 THEN seq
    ELSE LET rest == RemoveEach(seq, unwanted, n - 1)
         IN IF unwanted[n] \in Range(rest) THEN RemoveFirst(rest, unwanted[n]) ELSE rest
UnwantedCols == <<"time_index", "varset", "year", "index">>

LocationErrors(lat, long) ==
    IF ~IsNone(lat) /\ ~IsNumber(lat)
    THEN Exc("ValueError", <<"Parameter 'lat' must be a numeric value (int or float).">>)
    ELSE IF ~IsNone(long) /\ ~IsNumber(long)
    THEN Exc("ValueError", <<"Parameter 'long' must be a numeric value (int or float).">>)
    ELSE IF IsNone(lat) # IsNone(long)
    THEN Exc("ValueError", <<"Both 'lat' and 'long' must be provided together for location filtering.">>)
    ELSE None

OrderByError(order_by) ==
    Exc("ValueError", <<"The order_by column '", order_by.v, "' must be included in the SELECT statement.">>)
OrderDirectionError == Exc("ValueError", <<"Invalid order_direction. Use 'ASC' or 'DESC'.">>)

\* the statement that runs the query (lines 412 and 526)
RunStatisticQuery(query, fault) ==
    query_athena([query_string |-> query, convert_to_dataframe |-> TRUE,
                  return_result_location_only |-> FALSE, reduce_poll |-> FALSE],
                 StatisticJob(query), fault)

\* get_statistic_full_hourly (lines 222-420) with statistic, years, days, hours and the
\* group_by flags other than group_by_year left at their defaults; a is the record of
\* the arguments, found what the lookup of the nearest locations returns or raises
get_statistic_full_hourly(self, a, found, fault) ==
    LET e1 == LocationErrors(a.lat, a.long) IN
    IF ~IsNone(e1) THEN HOutcome(self, Raised(e1), << >>)
    ELSE IF ~(1 <= a.n_nearest /\ a.n_nearest <= 16)
    THEN HOutcome(self, Raised(Exc("ValueError", <<"Parameter 'n_nearest' must be an integer between 1 and 16.">>)), << >>)
    ELSE IF ~IsNone(a.months) /\ \E i \in DOMAIN a.months.v : ~(1 <= a.months.v[i] /\ a.months.v[i] <= 12)
    THEN HOutcome(self, Raised(Exc("ValueError", <<"Parameter 'months' must be a list of integers representing months.">>)), << >>)
    ELSE IF ~IsNone(a.heights) /\ ~IsNone(a.columns)
    THEN HOutcome(self, Raised(Exc("ValueError", <<"Specify either 'columns' or 'heights', not both.">>)), << >>)
    ELSE
    LET s1 == _reset_index_(self, a.lat, a.long) IN
    IF ~IsNone(a.columns) /\ \E i \in DOMAIN a.columns.v : a.columns.v[i] \notin Range(s1.column_names)
    THEN LET i == Least({j \in DOMAIN a.columns.v : a.columns.v[j] \notin Range(s1.column_names)})
         IN HOutcome(s1, Raised(Exc("ValueError", <<"Column '", a.columns.v[i], "' does not exist in the table.">>)), << >>)
    ELSE
    LET given == IF ~IsNone(a.columns) THEN a.columns.v
                 ELSE RemoveEach(s1.column_names, UnwantedCols, Len(UnwantedCols))
        resolved == find_relevant_columns(s1, IF TruthyList(a.heights) THEN a.heights.v ELSE << >>)
        s2 == IF TruthyList(a.heights) THEN resolved.self ELSE s1
        cols == IF TruthyList(a.heights) THEN resolved.columns ELSE given
        select == [i \in DOMAIN cols |-> StatisticItem("AVG", cols[i])]
                  \o (IF a.group_by_year THEN <<SelectItem("year", "")>> ELSE << >>)
        group_by == IF a.group_by_year THEN <<"year">> ELSE << >>
    IN
    IF TruthyStr(a.order_by)
       /\ Lower(a.order_by.v) \notin {AliasOf(select[i]) : i \in DOMAIN select}
    THEN HOutcome(s2, Raised(OrderByError(a.order_by)), << >>)
    ELSE IF ~IsNone(a.lat) /\ ~IsNone(a.long) /\ found.kind = "raise"
    THEN HOutcome(s2, Raised(Exc("RuntimeError", <<"Failed to process location-based filtering for given lat and long.">>)), << >>)
    ELSE
    LET where == (IF ~IsNone(a.lat) /\ ~IsNone(a.long) /\ Len(found.value.v) > 0
                  THEN <<InFilter("index", found.value.v)>> ELSE << >>)
                 \o (IF TruthyList(a.months)
                     THEN <<InFilter(MonthExpr, [i \in DOMAIN a.months.v |-> TwoDigits(a.months.v[i])])>>
                     ELSE << >>)
        query == StatisticQuery(select, s2.athena_table_name, where, group_by, None)
        r == RunStatisticQuery(query, fault)
    IN
    IF r.kind = "raise" THEN HOutcome(s2, r, <<query>>)
    ELSE IF TruthyStr(a.order_by) /\ Upper(a.order_direction) \notin {"ASC", "DESC"}
    THEN HOutcome(s2, Raised(OrderDirectionError), <<query>>)
    ELSE HOutcome(s2, r, <<query>>)

\* get_windspeed_statistics (lines 422-527) with the group_by flags other than
\* group_by_year left at their defaults
get_windspeed_statistics(self, a, found, fault) ==
    LET e1 == LocationErrors(a.lat, a.long) IN
    IF ~IsNone(e1) THEN HOutcome(self, Raised(e1), << >>)
    ELSE IF IsNone(a.height) \/ ~IsNumber(a.height)
    THEN HOutcome(self, Raised(Exc("ValueError", <<"Parameter 'height' must be a numeric value (int or float) and cannot be None.">>)), << >>)
    ELSE
    LET s1 == _reset_index_(self, a.lat, a.long)
        windspeed_column == WindspeedColumn(a.height.v)
    IN
    IF windspeed_column \notin Range(s1.column_names)
    THEN HOutcome(s1, Raised(Exc("ValueError", <<"Column '", windspeed_column, "' does not exist in the table.">>)), << >>)
    ELSE
    LET select == <<SelectItem("AVG(" \o windspeed_column \o ")", windspeed_column \o "_avg")>>
                  \o (IF a.group_by_year THEN <<SelectItem("year", "")>> ELSE << >>)
        group_by == IF a.group_by_year THEN <<"year">> ELSE << >>
    IN
    IF TruthyStr(a.order_by)
       /\ Lower(a.order_by.v) \notin {AliasOf(select[i]) : i \in DOMAIN select}
    THEN HOutcome(s1, Raised(OrderByError(a.order_by)), << >>)
    ELSE IF TruthyStr(a.order_by) /\ Upper(a.order_direction) \notin {"ASC", "DESC"}
    THEN HOutcome(s1, Raised(OrderDirectionError), << >>)
    ELSE
    LET where == IF ~IsNone(a.lat) /\ ~IsNone(a.long)
                 THEN <<InFilter("index", found.value.v)>> ELSE << >>
        order == IF TruthyStr(a.order_by)
                 THEN OrderBy(a.order_by.v, Upper(a.order_direction)) ELSE None
        query == StatisticQuery(select, s1.athena_table_name, where, group_by, order)
    IN HOutcome(s1, RunStatisticQuery(query, fault), <<query>>)

----------------------------------------------------------------------------
(* SpecHourly: operations called one after another on one WTKLedClientFullHourly *)

\* arguments the callers pass
HourlyLocations == { <<None, None>>, <<PyFloat(4), PyFloat(4)>>, <<PyFloat(4), None>>,
                     <<[type |-> "str"], PyFloat(4)>> }
OrderByArgs == { None, PyStr("YEAR"), PyStr("windspeed_30m_avg") }
OrderDirectionArgs == { "ASC", "desc", "UP" }

StatisticArgs ==
    [lat : {None}, long : {None}, n_nearest : {1}, columns : {None}, heights : {None},
     months : {None}, group_by_year : BOOLEAN, order_by : OrderByArgs,
     order_direction : OrderDirectionArgs]
    \cup
    { [lat |-> loc[1], long |-> loc[2], n_nearest |-> n, columns |-> None,
       heights |-> None, months |-> None, group_by_year |-> TRUE,
       order_by |-> PyStr("YEAR"), order_direction |-> "desc"] :
        loc \in HourlyLocations, n \in {0, 1, 2, 4, 17} }
    \cup
    { [lat |-> PyFloat(4), long |-> PyFloat(4), n_nearest |-> 1, columns |-> c,
       heights |-> h, months |-> m, group_by_year |-> TRUE, order_by |-> PyStr("YEAR"),
       order_direction |-> "desc"] :
        c \in {None, List(<<"windspeed_30m">>), List(<<"windspeed_30m", "nosuch">>)},
        h \in {None, List(<<45>>)}, m \in {None, List(<<1>>), List(<<1, 13>>)} }

WindspeedArgs ==
    { [lat |-> loc[1], long |-> loc[2], height |-> h, group_by_year |-> g,
       order_by |-> ob, order_direction |-> od] :
        loc \in HourlyLocations, h \in {None, PyInt(30), PyInt(45)}, g \in BOOLEAN,
        ob \in OrderByArgs, od \in OrderDirectionArgs }

\* what the lookup of the nearest locations of a call gives, for arguments that reach
\* the location filter
NearestN(a, n) ==
    IF IsNone(a.lat) \/ IsNone(a.long) \/ ~IsNumber(a.lat) \/ ~IsNumber(a.long)
       \/ n \notin 1..16
    THEN {Returned(List(<< >>))}
    ELSE IF n = 1
    THEN {Returned(List(<<index>>)) : index \in find_nearest_location(a.lat.v, a.long.v)}
    ELSE find_n_nearest_locations(a.lat.v, a.long.v, n)

HCalled(op, a, o) ==
    /\ athena_table_name' = o.self.athena_table_name
    /\ column_names' = o.self.column_names
    /\ column_mapping' = o.self.column_mapping
    /\ lastCall' = [op |-> op, args |-> a, result |-> o.result, submitted |-> o.submitted]
    /\ UNCHANGED <<qvars, svars>>

GetStatisticFullHourly ==
    \E a \in StatisticArgs : \E found \in NearestN(a, a.n_nearest) :
    \E fault \in SessionFaults :
    \E o \in {get_statistic_full_hourly(HSelf, a, found, fault)} :
        HCalled("get_statistic_full_hourly", a, o)

GetWindspeedStatistics ==
    \E a \in WindspeedArgs : \E found \in NearestN(a, 1) : \E fault \in SessionFaults :
    \E o \in {get_windspeed_statistics(HSelf, a, found, fault)} :
        HCalled("get_windspeed_statistics", a, o)

InitHourly == InitQuery /\ InitBase /\ InitSession /\ lastCall = NoCall

NextHourly ==
    \/ GetStatisticFullHourly
    \/ GetWindspeedStatistics

SpecHourly == InitHourly /\ [][NextHourly]_vars

----------------------------------------------------------------------------
(* SpecQuery: calls of query_athena on a constructed client *)

InitQ == InitQuery /\ InitBase /\ InitSession /\ lastCall = NoCall

NextQ ==
    \/ QueryCall
    \/ StartQueryExecution
    \/ GetQueryExecution
    \/ Sleep
    \/ Completed
    \/ GetQueryResults
    \/ GetObject

SpecQuery == InitQ /\ [][NextQ]_vars

----------------------------------------------------------------------------
(* The operator query_athena agrees with the steps of SpecQuery: a finished call has
   returned or raised what the operator gives for its arguments, the job the service
   ran, and the exception raised inside the try block *)
QueryAthenaAgrees ==
    q_pc = "done" => q_result = query_athena(q_args, remote, q_error)

----------------------------------------------------------------------------
(* Properties of the WindwattsWTKClient session, checked under Spec. Each is stated of
   the object in every state a sequence of calls leads to, and of every call that can
   be made on it next, the outcome of the call being computed by the method *)

\* the average of a granularity that the raw table of a location gives at a height
ExpectedAverage(g, index, height) ==
    Average(g, WithDerivedColumn(g, RemoteTable(index)), WindspeedColumn(height.v))

\* one call of any of the six methods
CallOf(op, self, pt, height, index, fault) ==
    CASE op = "fetch_data" -> CallFetchData(self, pt, index, fault)
      [] op = "get_data" -> CallGetData(self, pt, index, fault)
      [] OTHER -> CallFetchAvg(op, self, pt, height, index, fault)
Methods == {"fetch_data", "get_data"} \cup Granularities

\* C1: after any sequence of fetch_data / get_data / fetch_*_avg_at_height calls, a
\* fetch_*_avg_at_height(lat, long, height) call that returns a value returns the
\* aggregate computed from the raw table of the requested (lat, long) at the requested
\* height, never a memo computed for another location or height.
C1_MemoNeverStale ==
    \A g \in Granularities : \A pt \in ValidPoints : \A height \in ValidHeights :
    \A index \in NearestOf(pt) : \A fault \in SessionFaults :
        LET o == CallFetchAvg(g, Self, pt, height, index, fault)
        IN o.result.kind = "return" =>
              o.result.value = Dict(g, ExpectedAverage(g, index, height))

\* C2: fetch_data(lat, long) called twice in a row with identical arguments, the first
\* call fetching the table and succeeding, makes exactly one remote query execution
\* and the second call returns False; a third call with different coordinates makes
\* exactly one more remote execution, and returns True when it returns.
C2_FetchTwiceThenElsewhere ==
    \A pt \in ValidPoints : \A other \in ValidPoints \ {pt} :
    \A i1 \in NearestOf(pt) : \A i3 \in NearestOf(other) :
    \A f1 \in SessionFaults : \A f2 \in SessionFaults : \A f3 \in SessionFaults :
        LET o1 == CallFetchData(Self, pt, i1, f1)
            o2 == CallFetchData(o1.self, pt, i1, f2)
            o3 == CallFetchData(o2.self, other, i3, f3)
        IN o1.result = Returned(PyBool(TRUE)) =>
              /\ o1.executions + o2.executions = 1
              /\ o2.result = Returned(PyBool(FALSE))
              /\ o3.executions = 1
              /\ o3.result.kind = "return" => o3.result = Returned(PyBool(TRUE))
              /\ IsNone(f3) => o3.result = Returned(PyBool(TRUE))

\* the table of the point (0.4, 0.4) is held; the same call again returns False without
\* a remote execution, and a call for (0.4, 1.2) makes one and returns True
C2_Witness ==
    /\ is_up_to_date(Self, PyFloat(4), PyFloat(4))
    /\ df = RemoteTable("000A")
    /\ LET o2 == CallFetchData(Self, <<PyFloat(4), PyFloat(4)>>, "000A", None)
           o3 == CallFetchData(o2.self, <<PyFloat(4), PyFloat(12)>>, "000B", None)
       IN /\ o2.result = Returned(PyBool(FALSE)) /\ o2.executions = 0
          /\ o3.result = Returned(PyBool(TRUE)) /\ o3.executions = 1
          /\ o3.self.df = RemoteTable("000B")

\* C3: a fetch_*_avg_at_height call whose height differs from the height of the call
\* before it resets global_avg, yearly_avg, monthly_avg and hourly_avg to None and sets
\* current_height to the new height; the value it returns is computed for the new
\* height, and no granularity keeps a memo of the old height.
C3_HeightChangeResets ==
    \A g \in Granularities : \A pt \in ValidPoints : \A height \in ValidHeights :
    \A index \in NearestOf(pt) : \A fault \in SessionFaults :
        ~PyEq(current_height, height) =>
            LET reset == reset_averages_if_height_changes(Self, height)
                o == CallFetchAvg(g, Self, pt, height, index, fault)
            IN /\ \A k \in Granularities : IsNone(reset[k])
               /\ reset.current_height = height
               /\ o.self.current_height = height
               /\ \A k \in Granularities \ {g} : IsNone(o.self[k])
               /\ o.result.kind = "raise" => IsNone(o.self[g])
               /\ o.result.kind = "return" =>
                     /\ o.self[g] = ExpectedAverage(g, index, height)
                     /\ o.result.value = Dict(g, o.self[g])

\* the four averages of (0.4, 0.4) at 30 m are memoized; the yearly average asked for
\* the same point at 60 m is computed anew from the stored table and differs from the
\* memo, and the other three memos are gone
C3_Witness ==
    /\ is_up_to_date(Self, PyFloat(4), PyFloat(4))
    /\ PyEq(current_height, PyInt(30))
    /\ \A k \in Granularities : Self[k] = ExpectedAverage(k, "000A", PyInt(30))
    /\ LET o == CallFetchAvg("yearly_avg", Self, <<PyFloat(4), PyFloat(4)>>, PyInt(60),
                             "000A", None)
       IN /\ o.executions = 0
          /\ o.self.current_height = PyInt(60)
          /\ o.result = Returned(Dict("yearly_avg", ExpectedAverage("yearly_avg", "000A", PyInt(60))))
          /\ o.self.yearly_avg # yearly_avg
          /\ \A k \in Granularities \ {"yearly_avg"} : IsNone(o.self[k])

\* C4: a call whose fetch ends in an error leaves the stored raw table absent, so that
\* the next call on the object, for any coordinates, makes a new remote execution.
C4_FetchErrorDiscardsTable ==
    \A op \in Methods : \A pt \in ValidPoints : \A height \in ValidHeights :
    \A index \in NearestOf(pt) : \A fault \in SessionFaults :
        LET o == CallOf(op, Self, pt, height, index, fault)
        IN o.fetch = "failed" =>
              /\ IsNone(o.self.df)
              /\ \A op2 \in Methods : \A pt2 \in ValidPoints : \A h2 \in ValidHeights :
                 \A i2 \in NearestOf(pt2) :
                     CallOf(op2, o.self, pt2, h2, i2, None).executions = 1

----------------------------------------------------------------------------
(* Properties of WTKLedClientFullHourly, checked under SpecHourly *)

\* C5: a call that ends in an input validation error (a ValueError or TypeError for a
\* wrong type, an out-of-range value, an unknown column or height, columns given with
\* heights, an invalid order_by or order_direction) has submitted no query to the remote
\* service when the error is raised.
C5_ValidationBeforeRemote ==
    (/\ lastCall.op # "none"
     /\ lastCall.result.kind = "raise"
     /\ lastCall.result.exc.type \in {"ValueError", "TypeError"})
    => lastCall.submitted = << >>

----------------------------------------------------------------------------
(* Properties of query_athena, checked under SpecQuery *)

\* C6: the k-th sleep of the poll loop (k = 0, 1, ...) lasts min(w0 * 2^k, 5 s), with
\* w0 = 0.5 s by default and 0.1 s under reduce_poll; five pending polls from 0.5 s give
\* the sleeps 0.5, 1, 2, 4, 5 s; no sleep exceeds 5 s.
C6_SleepIntervals ==
    LET w0 == IF q_args.reduce_poll THEN ReducedWait ELSE DefaultWait IN
    /\ \A k \in DOMAIN sleeps : sleeps[k] = Min(w0 * 2^(k - 1), MaxWait)
    /\ \A k \in DOMAIN sleeps : sleeps[k] <= MaxWait
    /\ (~q_args.reduce_poll /\ Len(sleeps) >= 5) => SubSeq(sleeps, 1, 5) = <<5, 10, 20, 40, 50>>
C6_Witness ==
    /\ ~q_args.reduce_poll
    /\ sleeps = <<5, 10, 20, 40, 50>>

\* C7: every query_athena call issues exactly one start_query_execution request, whatever
\* the outcome of the job (a Failed or Cancelled job is not resubmitted), and it never
\* issues a cancellation request.
C7_OneJobPerCall ==
    /\ q_pc \in {"idle", "start"} => Count(requests, "start_query_execution") = 0
    /\ q_pc \notin {"idle", "start"} => Count(requests, "start_query_execution") = 1
    /\ "stop_query_execution" \notin Range(requests)
C7_Witness ==
    /\ q_pc = "done"
    /\ status \in {"FAILED", "CANCELLED"}
    /\ q_result.kind = "raise"
    /\ Count(requests, "start_query_execution") = 1

\* C8: a job polled as Failed makes query_athena raise RuntimeError with a message that
\* carries the StateChangeReason the service reported; a job polled as Cancelled makes it
\* raise RuntimeError reporting the cancellation; no value is returned in either case.
C8_FailedCancelledRaise ==
    (q_pc = "done" /\ status \in {"FAILED", "CANCELLED"}) =>
        /\ q_result.kind = "raise"
        /\ q_result.exc.type = "RuntimeError"
        /\ (status = "FAILED" /\ "StateChangeReason" \in DOMAIN response) =>
               response.StateChangeReason \in Range(q_result.exc.msg)
        /\ status = "CANCELLED" => "Athena query was cancelled." \in Range(q_result.exc.msg)
C8_Witness ==
    /\ q_pc = "done"
    /\ status = "FAILED"
    /\ "StateChangeReason" \in DOMAIN response
    /\ q_result.kind = "raise"

\* C9: an error raised during submission, polling or result fetch leaves query_athena as
\* RuntimeError and as nothing else, and the call returns no value after it.
C9_ErrorsWrapped ==
    /\ q_result.kind = "raise" => q_result.exc.type = "RuntimeError"
    /\ ~IsNone(q_error) => (q_pc = "done" /\ q_result.kind = "raise")
C9_Witness ==
    /\ q_pc = "done"
    /\ q_error.type = "ParserError"
    /\ q_result.kind = "raise"

\* C10: on a Succeeded job, location-only mode returns a descriptor naming the job's
\* result location without any get_query_results or get_object request; raw-rows mode
\* requests every result page and returns the columns and all rows with each cell the
\* field's VarCharValue as it came (None for a null cell); table mode fetches the result
\* object.
C10_SuccessModes ==
    (q_pc = "done" /\ status = "SUCCEEDED" /\ q_result.kind = "return") =>
        IF q_args.return_result_location_only
        THEN /\ q_result.value.type = "str"
             /\ remote.location \in Range(q_result.value.v)
             /\ Range(requests) \cap {"get_query_results", "get_object"} = {}
        ELSE IF ~q_args.convert_to_dataframe
        THEN LET rows == RowsOfPages(remote.pages, Len(remote.pages))
                 data == q_result.value.data
             IN /\ Count(requests, "get_query_results") = Len(remote.pages)
                /\ "get_object" \notin Range(requests)
                /\ q_result.value.columns.v = remote.pages[1].ColumnInfo
                /\ Len(data) = Len(rows)
                /\ \A i \in DOMAIN rows :
                      /\ Len(data[i]) = Len(rows[i].Data)
                      /\ \A j \in DOMAIN rows[i].Data :
                            IF "VarCharValue" \in DOMAIN rows[i].Data[j]
                            THEN data[i][j] = PyStr(rows[i].Data[j].VarCharValue)
                            ELSE IsNone(data[i][j])
        ELSE /\ Count(requests, "get_object") = 1
             /\ "get_query_results" \notin Range(requests)
             /\ q_result.value.type = "DataFrame"
C10_Witness ==
    /\ q_pc = "done"
    /\ status = "SUCCEEDED"
    /\ q_args.return_result_location_only
    /\ q_args.convert_to_dataframe
    /\ q_result.kind = "return"

----------------------------------------------------------------------------
(* SpecSameLocation: fetch_*_avg_at_height calls on one WindwattsWTKClient that all
   target one (lat, long), any valid height and granularity, the remote never failing;
   lastCall records the call just made and the remote executions made so far *)

FetchAvgSame(g) ==
    /\ lastCall.op # "none" => lastCall.total < MaxExecutions
    /\ \E pt \in ValidPoints : \E height \in ValidHeights : \E index \in NearestOf(pt) :
       \E o \in {CallFetchAvg(g, Self, pt, height, index, None)} :
          /\ lastCall.op # "none" => pt = lastCall.pt
          /\ Becomes(o.self)
          /\ lastCall' = [op |-> g, pt |-> pt, height |-> height, index |-> index,
                          result |-> o.result, executions |-> o.executions,
                          total |-> o.executions
                                    + (IF lastCall.op = "none" THEN 0 ELSE lastCall.total)]
          /\ UNCHANGED qvars

FetchGlobalAvgSame == FetchAvgSame("global_avg")
FetchYearlyAvgSame == FetchAvgSame("yearly_avg")
FetchMonthlyAvgSame == FetchAvgSame("monthly_avg")
FetchHourlyAvgSame == FetchAvgSame("hourly_avg")

NextSameLocation ==
    \/ FetchGlobalAvgSame
    \/ FetchYearlyAvgSame
    \/ FetchMonthlyAvgSame
    \/ FetchHourlyAvgSame

SpecSameLocation == Init /\ [][NextSameLocation]_vars

\* C11: over fetch_*_avg_at_height calls that all target the same (lat, long), with
\* any mix of valid heights and granularities and no remote failure, exactly one
\* remote query execution is made in total, by the first call; every value returned
\* is derived from the stored raw table of that location.
C11_OneExecutionPerLocation ==
    lastCall.op # "none" =>
        /\ lastCall.total = 1
        /\ lastCall.result.kind = "return" =>
              /\ lastCall.result.value =
                    Dict(lastCall.op, Average(lastCall.op, df, WindspeedColumn(lastCall.height.v)))
              /\ lastCall.result.value =
                    Dict(lastCall.op, ExpectedAverage(lastCall.op, lastCall.index, lastCall.height))

\* an hourly average at 60 m returned without a remote execution, the one execution of
\* the session having been made by an earlier call
C11_Witness ==
    /\ lastCall.op = "hourly_avg"
    /\ lastCall.height = PyInt(60)
    /\ lastCall.executions = 0
    /\ lastCall.total = 1
    /\ lastCall.result.kind = "return"
    /\ ~IsNone(global_avg)

----------------------------------------------------------------------------
(* SpecNearest: lookups of the nearest location records on a constructed client;
   lastCall records the lookup just made and what it returned or raised *)

\* query coordinates, in tenths of a degree: the records' own coordinates, points
\* between them (5, 5 and 55, 55 lie as far from one record as from the next) and beside
\* them
QueryCoords == {0, 4, 5, 6, 10, 12, 55, 100}
\* numbers of neighbours asked for, the last one more than there are records
NeighbourCounts == 1..(Len(location_gdf) + 1)

FindNearestLocation ==
    /\ \E lat \in QueryCoords : \E long \in QueryCoords :
       \E id \in find_nearest_location(lat, long) :
          lastCall' = [op |-> "find_nearest_location", lat |-> lat, long |-> long,
                       result |-> Returned(PyStr(id))]
    /\ UNCHANGED <<qvars, bvars, svars>>

FindNNearestLocations ==
    /\ \E lat \in QueryCoords : \E long \in QueryCoords : \E n \in NeighbourCounts :
       \E r \in find_n_nearest_locations(lat, long, n) :
          lastCall' = [op |-> "find_n_nearest_locations", lat |-> lat, long |-> long,
                       n |-> n, result |-> r]
    /\ UNCHANGED <<qvars, bvars, svars>>

NextNearest ==
    \/ FindNearestLocation
    \/ FindNNearestLocations

SpecNearest == Init /\ [][NextNearest]_vars

\* the record at a position is strictly closer to the query point than every other
UniqueClosest(i, lat, long) ==
    \A j \in DOMAIN location_gdf \ {i} :
        Dist2(location_gdf[i], lat, long) < Dist2(location_gdf[j], lat, long)
\* the squared distance of the record of an id to the query point
DistOfId(id, lat, long) ==
    Dist2(location_gdf[CHOOSE i \in DOMAIN location_gdf : location_gdf[i].index = id],
          lat, long)

\* C12: find_nearest_location(lat, long) returns the id of the record at the smallest
\* Euclidean distance to the query point in (x = long, y = lat) space whenever one record
\* is the unique closest; for a query equal to a record's own coordinates it returns
\* that record's id; for the records A(0,0), B(1,1), C(10,10) the query (0.4, 0.4)
\* returns A.
C12_NearestIsClosest ==
    lastCall.op = "find_nearest_location" =>
        /\ \A i \in DOMAIN location_gdf :
              UniqueClosest(i, lastCall.lat, lastCall.long)
                 => lastCall.result = Returned(PyStr(location_gdf[i].index))
        /\ \A i \in DOMAIN location_gdf :
              (location_gdf[i].x = lastCall.long /\ location_gdf[i].y = lastCall.lat)
                 => lastCall.result = Returned(PyStr(location_gdf[i].index))
        /\ (lastCall.lat = 4 /\ lastCall.long = 4)
              => lastCall.result = Returned(PyStr("000A"))

\* the query (1.2, 0.6), nearest to B(1,1), has returned B
C12_Witness ==
    /\ lastCall.op = "find_nearest_location"
    /\ lastCall.lat = 12 /\ lastCall.long = 6
    /\ UniqueClosest(2, 12, 6)
    /\ lastCall.result = Returned(PyStr("000B"))

\* C13: for every n with 1 <= n <= |records|, find_n_nearest_locations(lat, long, n)
\* returns exactly n distinct record ids in non-decreasing order of distance to the
\* query point.
C13_NNearestOrdered ==
    (lastCall.op = "find_n_nearest_locations" /\ lastCall.n \in 1..Len(location_gdf)) =>
        /\ lastCall.result.kind = "return"
        /\ LET ids == lastCall.result.value.v
           IN /\ Len(ids) = lastCall.n
              /\ \A i \in DOMAIN ids : \A j \in DOMAIN ids :
                    i < j => /\ ids[i] # ids[j]
                             /\ DistOfId(ids[i], lastCall.lat, lastCall.long)
                                   <= DistOfId(ids[j], lastCall.lat, lastCall.long)

\* C14: a lookup of the n nearest records with n outside 1 <= n <= |records| fails with
\* the invalid-argument error (a ValueError), and returns no id list.
C14_InvalidNRejected ==
    (lastCall.op = "find_n_nearest_locations" /\ lastCall.n \notin 1..Len(location_gdf)) =>
        /\ lastCall.result.kind = "raise"
        /\ lastCall.result.exc.type = "ValueError"

----------------------------------------------------------------------------
(* SpecColumns: find_relevant_columns called on clients of tables with different
   schemas; lastCall records the call just made, whether the height map was None when
   it was made, and what it returned *)

\* declared columns of a table, as _initialize_column_names leaves them: heights 30 and
\* 60; heights 30, 60 and 100; heights 0, 30 and 60; height 0 alone; no height at all
Schemas ==
    { DescribedColumns,
      <<"windspeed_30m", "windspeed_60m", "windspeed_100m", "year", "index">>,
      <<"pressure_0m", "windspeed_30m", "winddirection_30m", "windspeed_60m", "index">>,
      <<"pressure_0m", "index">>,
      <<"year", "index">> }

\* the heights a caller asks for: lists of at most MaxHeights of these
MaxHeights == 2
RequestedHeights == {-5, 0, 10, 45, 60, 120}
HeightLists == UNION {[1..n -> RequestedHeights] : n \in 0..MaxHeights}

\* the object from line 62 of __init__ on: column_names set, column_mapping None until
\* line 64 has run
InitColumns ==
    /\ InitQuery /\ InitSession /\ lastCall = NoCall
    /\ athena_table_name = DefaultTable
    /\ column_names \in Schemas
    /\ column_mapping \in {None, Mapping(InitializeColumnMapping(column_names))}

FindRelevantColumns ==
    \E heights \in HeightLists :
    \E o \in {find_relevant_columns(HSelf, heights)} :
        /\ column_mapping' = o.self.column_mapping
        /\ lastCall' = [op |-> "find_relevant_columns", heights |-> heights,
                        unresolved |-> IsNone(column_mapping),
                        result |-> Returned(List(o.columns))]
        /\ UNCHANGED <<qvars, svars, athena_table_name, column_names>>

NextColumns == FindRelevantColumns

SpecColumns == InitColumns /\ [][NextColumns]_vars

\* the height map of the declared columns, its heights, and one requested height of the
\* call just made
HeightMap == InitializeColumnMapping(column_names)
Available == DOMAIN HeightMap
OneHeight == lastCall.op = "find_relevant_columns" /\ Len(lastCall.heights) = 1
\* the sorted list of the columns of a set of heights
ColumnsOf(hs) == Sorted(UNION {Range(HeightMap[h]) : h \in hs})
\* the place of a column name in lexicographic order
Place(c) == CHOOSE i \in DOMAIN ColumnOrder : ColumnOrder[i] = c

\* C15: for a non-empty height map and a requested height h strictly between two
\* available heights, find_relevant_columns([h]) returns the union of the columns of
\* the nearest available height below h and of the nearest available height above h,
\* whatever the integer height keys; the map {30, 60, 100} and h = 45 give the columns
\* of 30 and 60.
C15_BetweenGivesBothNeighbours ==
    OneHeight =>
        LET h == lastCall.heights[1]
            below == {k \in Available : k < h}
            above == {k \in Available : k > h}
        IN (h \notin Available /\ below # {} /\ above # {}) =>
              lastCall.result = Returned(List(ColumnsOf({Max(below), Least(above)})))

\* C16: find_relevant_columns([h]) returns exactly the columns of height h when h is a
\* key of the height map, exactly the columns of the minimum available height when h is
\* below every available height, and exactly the columns of the maximum available
\* height when h is above every available height.
C16_ExactAndOutside ==
    (OneHeight /\ Available # {}) =>
        LET h == lastCall.heights[1]
        IN /\ h \in Available => lastCall.result = Returned(List(ColumnsOf({h})))
           /\ (\A k \in Available : h < k) =>
                 lastCall.result = Returned(List(ColumnsOf({Least(Available)})))
           /\ (\A k \in Available : h > k) =>
                 lastCall.result = Returned(List(ColumnsOf({Max(Available)})))

----------------------------------------------------------------------------
(* SpecSchema: client_base.__init__ from the return of the DESCRIBE query on: the
   column names are taken from the raw results (line 62), then the height map is built
   (line 64) *)

\* the text of a cell is kept as its pieces, a tab and a blank being pieces of their own
\* str.split('\t')[0]: the pieces before the first tab
BeforeTab(parts) ==
    LET tabs == {i \in DOMAIN parts : parts[i] = "\t"}
    IN IF tabs = {} THEN parts ELSE SubSeq(parts, 1, Least(tabs) - 1)
\* str.strip(): without the blanks at either end
RECURSIVE Strip(_)
Strip(parts) ==
    IF parts = << >> THEN << >>
    ELSE IF Head(parts) = " " THEN Strip(Tail(parts))
    ELSE IF parts[Len(parts)] = " " THEN Strip(SubSeq(parts, 1, Len(parts) - 1))
    ELSE parts
RECURSIVE Join(_)
Join(parts) == IF parts = << >> THEN "" ELSE Head(parts) \o Join(Tail(parts))

\* the declared names: row[0].split('\t')[0].strip() for row in data if row (line 83)
DeclaredRows(data) == LET NonEmpty(row) == Len(row) > 0 IN SelectSeq(data, NonEmpty)
DeclaredNames(data) ==
    [i \in DOMAIN DeclaredRows(data) |-> Join(Strip(BeforeTab(DeclaredRows(data)[i][1].v)))]

\* lines 85-89: column_names[:column_names.index('index') + 1], or the list as it is
\* when index() raises ValueError
NotTruncated(names) == names
TruncateAfterMarker(names) ==
    IF "index" \in Range(names)
    THEN SubSeq(names, 1, Least({i \in DOMAIN names : names[i] = "index"}))
    ELSE names

\* _initialize_column_names (lines 73-90) from the raw results on; a null first cell
\* has no split()
_initialize_column_names(raw_results) ==
    IF \E i \in DOMAIN DeclaredRows(raw_results.data) :
          IsNone(DeclaredRows(raw_results.data)[i][1])
    THEN Raised(Exc("AttributeError", <<"'NoneType' object has no attribute 'split'">>))
    ELSE Returned(List(TruncateAfterMarker(DeclaredNames(raw_results.data))))

\* rows DESCRIBE can report: a column, the marker column, a line of the partition
\* section, an empty row, a row whose cell is null
DescribeRows ==
    { [Data |-> <<Field(<<"windspeed_30m", " ", "\t", "double">>)>>],
      [Data |-> <<Field(<<"index", "\t", "string">>)>>],
      [Data |-> <<Field(<<"# Partition Information">>)>>],
      [Data |-> << >>],
      [Data |-> <<NullField>>] }
MaxRows == 3
DescribeResults ==
    {RawResult(<<"col_name">>, rows) : rows \in UNION {[1..n -> DescribeRows] : n \in 0..MaxRows}}

\* the DESCRIBE query of line 79 has returned; column_names is not assigned yet and
\* column_mapping is None (line 61)
InitSchema ==
    /\ q_pc = "done"
    /\ q_args = [query_string |-> DescribeQuery(DefaultTable), convert_to_dataframe |-> FALSE,
                 return_result_location_only |-> FALSE, reduce_poll |-> FALSE]
    /\ q_result \in {Returned(raw) : raw \in DescribeResults}
    /\ remote = NoJob
    /\ status = "SUCCEEDED" /\ response = [State |-> "SUCCEEDED"]
    /\ wait_time = DefaultWait /\ sleeps = << >> /\ requests = << >>
    /\ columns = None /\ all_rows = << >> /\ q_error = None
    /\ athena_table_name = DefaultTable
    /\ column_names = << >>
    /\ column_mapping = None
    /\ InitSession
    /\ lastCall = NoCall

InitializeColumnNames ==
    /\ lastCall.op = "none"
    /\ \E o \in {_initialize_column_names(q_result.value)} :
          /\ column_names' = IF o.kind = "return" THEN o.value.v ELSE column_names
          /\ lastCall' = [op |-> "_initialize_column_names", result |-> o]
    /\ UNCHANGED <<qvars, svars, athena_table_name, column_mapping>>

InitializeColumnMappingStep ==
    /\ lastCall.op = "_initialize_column_names"
    /\ lastCall.result.kind = "return"
    /\ column_mapping' = _initialize_column_mapping(HSelf).column_mapping
    /\ lastCall' = [op |-> "_initialize_column_mapping", result |-> Returned(None)]
    /\ UNCHANGED <<qvars, svars, athena_table_name, column_names>>

NextSchema ==
    \/ InitializeColumnNames
    \/ InitializeColumnMappingStep

SpecSchema == InitSchema /\ [][NextSchema]_vars

\* the places of the marker column among the declared names of the raw results
MarkerPlaces == {i \in DOMAIN DeclaredNames(q_result.value.data) :
                    DeclaredNames(q_result.value.data)[i] = "index"}
NamesReturned == lastCall.op = "_initialize_column_names" /\ lastCall.result.kind = "return"

\* C19 as stated: the list _initialize_column_names produces is the declared column
\* sequence cut immediately after the last occurrence of 'index', and the full
\* sequence when 'index' is absent.
C19_TruncatedAfterLastMarker ==
    NamesReturned =>
        lastCall.result.value.v =
            IF MarkerPlaces = {} THEN DeclaredNames(q_result.value.data)
            ELSE SubSeq(DeclaredNames(q_result.value.data), 1, Max(MarkerPlaces))

\* C19 amended: the list _initialize_column_names produces is the declared column
\* sequence cut immediately after the first occurrence of 'index', declared order
\* kept, and the full sequence when 'index' is absent; it becomes column_names.
C19_TruncatedAfterFirstMarker ==
    NamesReturned =>
        /\ lastCall.result.value.v =
              IF MarkerPlaces = {} THEN DeclaredNames(q_result.value.data)
              ELSE SubSeq(DeclaredNames(q_result.value.data), 1, Least(MarkerPlaces))
        /\ column_names = lastCall.result.value.v

\* 'index' is declared twice with a line between; the list ends at the first
C19_Witness ==
    /\ NamesReturned
    /\ DeclaredNames(q_result.value.data) = <<"index", "# Partition Information", "index">>
    /\ column_names = <<"index">>

----------------------------------------------------------------------------
(* The height map and the active table, under SpecHourly *)

\* the columns DESCRIBE would report for the alternate table: no 'index' column, and
\* the windspeed at 100 m besides
AltDescribedColumns == <<"windspeed_30m", "winddirection_30m", "windspeed_60m",
                         "windspeed_100m", "year", "mohr">>
TableSchema(table) == IF table = AltTable THEN AltDescribedColumns ELSE DescribedColumns

\* C20: whenever the active table changes between the default and the alternate table
\* through _reset_index_, the height map is invalidated and rebuilt from the schema of
\* the newly active table, so that at every point the height map corresponds to the
\* active table.
C20_MapFollowsActiveTable ==
    column_mapping = Mapping(InitializeColumnMapping(TableSchema(athena_table_name)))

----------------------------------------------------------------------------
(* The active table and the column list, under SpecHourly *)

\* the arguments _reset_index_ can be given
ResetArgs == {None, PyFloat(4), PyFloat(12)}

\* C21: after every _reset_index_(lat, long), from any state a sequence of
\* location-filtered and full-domain operations leads to: with both lat and long given
\* the active table is the default table and the column list holds 'index' exactly
\* once; otherwise the active table is the alternate table and the column list does not
\* hold 'index'.
C21_ResetIndexPostcondition ==
    \A lat \in ResetArgs, long \in ResetArgs :
        LET after == _reset_index_(HSelf, lat, long) IN
        IF ~IsNone(lat) /\ ~IsNone(long)
        THEN /\ after.athena_table_name = DefaultTable
             /\ Count(after.column_names, "index") = 1
        ELSE /\ after.athena_table_name = AltTable
             /\ Count(after.column_names, "index") = 0

\* a full-domain operation has switched to the alternate table and dropped 'index';
\* the reset of a location-filtered operation that follows puts both back
C21_Witness ==
    /\ lastCall.op = "get_statistic_full_hourly"
    /\ IsNone(lastCall.args.lat)
    /\ lastCall.result.kind = "return"
    /\ athena_table_name = AltTable
    /\ "index" \notin Range(column_names)
    /\ _reset_index_(HSelf, PyFloat(4), PyFloat(4)).column_names = Append(column_names, "index")

----------------------------------------------------------------------------
(* SpecDownload: WTKLedClientFullHourly.download_full_hourly_data
   (wtk_client_full_hourly.py:129-220), varset and local_dir left at their defaults;
   lastCall holds the arguments of the call, the state of the object store, and, once
   the call has ended, what it returned or raised and the objects it requested *)

S3Key(index, year) ==
    "ts-parquet/year=" \o ToString(year) \o "/varset=all/index=" \o index \o "/"
        \o index \o "_" \o ToString(year) \o "_all.parquet"
LocalCsvPath(index, year) == "downloads/" \o index \o "_" \o ToString(year) \o "_all.csv"

\* the statements of the loop body that follow the inner loop over the years (lines
\* 197-218): one try block, with the s3_key and local_csv_path the inner loop left
AttemptAfterYears(index, years) == <<years[Len(years)]>>

\* the call from line 192 on: the objects requested, in order, and the end of the call;
\* store[index, year] tells whether get_object and the conversion succeed
DownloadLoop(indexes, years, store) ==
    IF Len(indexes) > 0 /\ Len(years) = 0
    THEN \* s3_key is not bound when the try block and then its handler read it
         [requested |-> << >>, result |-> Raised(Exc("UnboundLocalError", <<"s3_key">>))]
    ELSE LET pairs == [i \in DOMAIN indexes |->
                          [k \in DOMAIN AttemptAfterYears(indexes[i], years) |->
                              <<indexes[i], AttemptAfterYears(indexes[i], years)[k]>>]]
             RECURSIVE Flat(_)
             Flat(i) == IF i = 0 THEN << >> ELSE Flat(i - 1) \o pairs[i]
             attempts == Flat(Len(indexes))
             Saved(pair) == store[pair] = "ok"
             saved == SelectSeq(attempts, Saved)
         IN [requested |-> [i \in DOMAIN attempts |-> S3Key(attempts[i][1], attempts[i][2])],
             result |-> Returned(List([i \in DOMAIN saved |->
                                          LocalCsvPath(saved[i][1], saved[i][2])]))]

download_full_hourly_data(a, found, store, makedirs_fault) ==
    LET Fails(e) == [requested |-> << >>, result |-> Raised(e)] IN
    IF IsNone(a.lat) \/ IsNone(a.long)
    THEN Fails(Exc("TypeError", <<"Parameters 'lat' and 'long' must be provided.">>))
    ELSE IF IsNone(a.years)
    THEN Fails(Exc("ValueError", <<"At least 1 value for the Parameter 'years' must be specified.">>))
    ELSE IF ~IsNumber(a.lat) \/ ~IsNumber(a.long)
    THEN Fails(Exc("ValueError", <<"Parameters 'lat' and 'long' must be valid numeric values.">>))
    ELSE IF ~(1 <= a.n_nearest /\ a.n_nearest <= 16)
    THEN Fails(Exc("ValueError", <<"Parameter 'n_nearest' must be between 1 and 16.">>))
    ELSE IF makedirs_fault
    THEN Fails(Exc("RuntimeError", <<"Failed to create local directory 'downloads': ", "OSError">>))
    ELSE IF found.kind = "raise"
    THEN Fails(Exc("RuntimeError", <<"Failed to determine nearest locations: ">> \o StrOf(found.exc)))
    ELSE DownloadLoop(found.value.v, a.years.v, store)

\* the years asked for
Years == {2001, 2002}
MaxYears == 2
YearLists == UNION {[1..n -> Years] : n \in 0..MaxYears}
DownloadArgs ==
    { [lat |-> loc[1], long |-> loc[2], years |-> y, n_nearest |-> n] :
        loc \in { <<None, None>>, <<PyFloat(4), PyFloat(4)>>, <<PyFloat(12), PyFloat(6)>>,
                  <<[type |-> "str"], PyFloat(4)>> },
        y \in {None} \cup {List(l) : l \in YearLists},
        n \in {0, 1, 2, 4} }
\* the object store: per artifact, whether it can be fetched and converted
\* ("fetch": get_object raises; "convert": read_parquet or to_csv raises); the artifacts
\* of the third location are all there
Stores ==
    {st \in [{location_gdf[i].index : i \in DOMAIN location_gdf} \X Years
                -> {"ok", "fetch", "convert"}] :
        \A y \in Years : st[location_gdf[3].index, y] = "ok"}

InitDownload ==
    /\ InitQuery /\ InitBase /\ InitSession
    /\ \E a \in DownloadArgs : \E store \in Stores : \E makedirs_fault \in BOOLEAN :
          lastCall = [op |-> "download_full_hourly_data", args |-> a, store |-> store,
                      makedirs_fault |-> makedirs_fault, found |-> Pending,
                      result |-> Pending, requested |-> << >>]

DownloadFullHourlyData ==
    /\ lastCall.result = Pending
    /\ \E found \in NearestN(lastCall.args, lastCall.args.n_nearest) :
       \E o \in {download_full_hourly_data(lastCall.args, found, lastCall.store,
                                           lastCall.makedirs_fault)} :
          lastCall' = [lastCall EXCEPT !.result = o.result, !.requested = o.requested,
                                       !.found = found]
    /\ UNCHANGED <<qvars, bvars, svars>>

NextDownload == DownloadFullHourlyData

SpecDownload == InitDownload /\ [][NextDownload]_vars

\* the (location, year) pairs of the resolved locations and the requested years,
\* location by location
RECURSIVE AllPairs(_, _, _)
AllPairs(indexes, years, i) ==
    IF i = 0 THEN << >>
    ELSE AllPairs(indexes, years, i - 1) \o [k \in DOMAIN years |-> <<indexes[i], years[k]>>]

\* C22: download_full_hourly_data attempts the artifact of every (location, year) pair
\* of the resolved locations and the requested years, one after another, a failure
\* being skipped, and returns exactly the local paths of the pairs whose fetch and
\* conversion succeeded.
C22_EveryPairAttempted ==
    (lastCall.result # Pending /\ lastCall.found.kind = "return"
       /\ ~lastCall.makedirs_fault /\ ~IsNone(lastCall.args.years)
       /\ lastCall.args.n_nearest \in 1..16 /\ IsNumber(lastCall.args.lat)
       /\ IsNumber(lastCall.args.long)) =>
        LET pairs == AllPairs(lastCall.found.value.v, lastCall.args.years.v,
                              Len(lastCall.found.value.v))
            Saved(pair) == lastCall.store[pair] = "ok"
            saved == SelectSeq(pairs, Saved)
        IN /\ lastCall.requested = [i \in DOMAIN pairs |-> S3Key(pairs[i][1], pairs[i][2])]
           /\ lastCall.result =
                 Returned(List([i \in DOMAIN saved |-> LocalCsvPath(saved[i][1], saved[i][2])]))

----------------------------------------------------------------------------
(* The ORDER BY clause of get_statistic_full_hourly, under SpecHourly *)

\* C23: when get_statistic_full_hourly is called with a valid order_by and an
\* order_direction of ASC or DESC, the query submitted to the service holds the
\* corresponding ORDER BY clause, so that the results come back ordered.
C23_OrderBySubmitted ==
    (/\ lastCall.op = "get_statistic_full_hourly"
     /\ TruthyStr(lastCall.args.order_by)
     /\ Upper(lastCall.args.order_direction) \in {"ASC", "DESC"}
     /\ lastCall.result.kind = "return")
    => /\ Len(lastCall.submitted) = 1
       /\ lastCall.submitted[1].order_by =
             OrderBy(lastCall.args.order_by.v, Upper(lastCall.args.order_direction))

----------------------------------------------------------------------------
(* The grouped averages of the WindwattsWTKClient session, under Spec *)

----------------------------------------------------------------------------
(* The life of a job within one query_athena call, under SpecQuery *)

\* the request a step adds to the requests of the call, "" when it adds none
NewRequest ==
    IF Len(requests') = Len(requests) + 1 THEN requests'[Len(requests')] ELSE ""

\* C25: within one query_athena call the job goes Submitted -> {Queued, Running}* ->
\* {Succeeded, Failed, Cancelled}: its status is requested only after the submission
\* gave an execution id and only while no status other than Queued or Running has been
\* observed, an observed terminal status stays, and the results are requested
\* (get_query_results or get_object) only after Succeeded was observed.
C25_JobLifecycle ==
    [][ /\ NewRequest = "get_query_execution" =>
              /\ requests[1] = "start_query_execution"
              /\ remote # NoJob
              /\ status \in {"QUEUED", "RUNNING"}
        /\ NewRequest \in {"get_query_results", "get_object"} =>
              /\ status = "SUCCEEDED"
              /\ response.State = "SUCCEEDED"
              /\ "get_query_execution" \in Range(requests)
        /\ (status \in {"SUCCEEDED", "FAILED", "CANCELLED"} /\ q_pc' # "start") =>
              status' = status
      ]_vars

\* the job was seen pending twice, then Succeeded, and its result object was fetched
C25_Witness ==
    /\ q_pc = "done"
    /\ q_result.kind = "return"
    /\ status = "SUCCEEDED"
    /\ Len(sleeps) = 2
    /\ requests = <<"start_query_execution", "get_query_execution", "get_query_execution",
                    "get_query_execution", "get_object">>

\* C30: in the poll loop the status is requested before the first sleep and once after
\* every sleep: a call that observes k pending statuses makes exactly k sleeps and k + 1
\* status requests, a job already terminal at the first status request incurs no
\* sleep, and no sleep follows a status that is not pending.
C30_SleepsAndStatusRequests ==
    LET polls == Count(requests, "get_query_execution") IN
    /\ q_pc \in {"idle", "start"} => (polls = 0 /\ sleeps = << >>)
    /\ q_pc = "poll" => polls = Len(sleeps)
    /\ q_pc = "sleep" => (polls = Len(sleeps) + 1 /\ response.State \in {"QUEUED", "RUNNING"})
    /\ q_pc \in {"completed", "paginate", "get_object"} =>
          (polls = Len(sleeps) + 1 /\ response.State \notin {"QUEUED", "RUNNING"})
    /\ q_pc = "done" =>
          IF polls = 0 THEN sleeps = << >> ELSE polls = Len(sleeps) + 1
    /\ (q_pc = "done" /\ polls = 1 /\ status \in {"SUCCEEDED", "FAILED", "CANCELLED"}) =>
          sleeps = << >>

\* three pending statuses, three sleeps, and the fourth status request saw the job
\* cancelled
C30_Witness ==
    /\ q_pc = "done"
    /\ status = "CANCELLED"
    /\ Len(sleeps) = 3
    /\ Count(requests, "get_query_execution") = 4

----------------------------------------------------------------------------
(* SpecQueryLive: SpecQuery with the thread that runs query_athena taking its next step
   whenever it has one; nothing obliges a caller to call. The service reports a state
   other than QUEUED and RUNNING after at most MaxPolls pending reports: this is the
   assumption that the job eventually leaves the pending states *)

QuerySteps ==
    \/ StartQueryExecution
    \/ GetQueryExecution
    \/ Sleep
    \/ Completed
    \/ GetQueryResults
    \/ GetObject

SpecQueryLive == InitQ /\ [][NextQ]_vars /\ WF_vars(QuerySteps)

\* C27: query_athena enforces no deadline. If the job eventually reports a state other
\* than Queued or Running, the call eventually returns or raises; while the job reports
\* Queued or Running the call sleeps and polls again, whatever time it has waited, and
\* leaves the loop only through an exception raised by a request.
C27_NoDeadline ==
    /\ (q_pc = "start") ~> (q_pc = "done")
    /\ [][ /\ (q_pc = "sleep") => (q_pc' = "poll" /\ q_result' = Pending)
           /\ (q_pc = "poll" /\ response'.State \in {"QUEUED", "RUNNING"}) =>
                 \/ q_pc' = "sleep" /\ q_result' = Pending
                 \/ q_pc' = "done" /\ q_error' \in RequestErrors /\ response' = response
         ]_vars

\* the call slept through every pending report the service gave, 22.5 s and more in
\* all, and ended when the job was reported as succeeded
C27_Witness ==
    /\ q_pc = "done"
    /\ Len(sleeps) = MaxPolls
    /\ SumOf([i \in DOMAIN sleeps |-> [w |-> sleeps[i]]], "w", Len(sleeps)) >= 225
    /\ status = "SUCCEEDED"
    /\ q_result.kind = "return"

----------------------------------------------------------------------------
(* The stored table and the stored location of the WindwattsWTKClient session, under
   Spec *)

\* a stored table without the month and hour columns the averages derive on it
RawPart(table) ==
    LET Raw(c) == c \notin {"month", "hour"} IN
    [table EXCEPT
        !.columns = SelectSeq(table.columns, Raw),
        !.rows = [i \in DOMAIN table.rows |->
                    [c \in DOMAIN table.rows[i] \ {"month", "hour"} |-> table.rows[i][c]]]]

\* the table held is the one the remote gives for the nearest location of the point
HoldsTableOf(self, lat, long) ==
    /\ IsNumber(lat) /\ IsNumber(long)
    /\ self.current_lat = lat /\ self.current_long = long
    /\ \E index \in NearestOf(<<lat, long>>) : RawPart(self.df) = RemoteTable(index)

\* C26: between two operations of a session, after any sequence of successful and
\* failing fetch_data / get_data / fetch_*_avg_at_height calls: a stored table (df) that
\* is not None is the table fetched for exactly the stored (current_lat, current_long);
\* no call changes the table or the stored location one without the other.
C26_TableMatchesLocation ==
    /\ ~IsNone(df) => HoldsTableOf(Self, current_lat, current_long)
    /\ \A op \in Methods : \A a \in AvgArgs : \A index \in NearestOf(a[1]) :
       \A fault \in SessionFaults :
          LET o == CallOf(op, Self, a[1], a[2], index, fault) IN
          /\ (o.self.current_lat # current_lat \/ o.self.current_long # current_long) =>
                (~IsNone(o.self.df) /\ HoldsTableOf(o.self, a[1][1], a[1][2]))
          /\ (~IsNone(o.self.df) /\ (IsNone(df) \/ RawPart(o.self.df) # RawPart(df))) =>
                HoldsTableOf(o.self, a[1][1], a[1][2])

\* the table of (0.4, 1.2) is held, with the month column that a monthly average
\* derived on it
C26_Witness ==
    /\ ~IsNone(df)
    /\ current_lat = PyFloat(4) /\ current_long = PyFloat(12)
    /\ "month" \in Range(df.columns)
    /\ RawPart(df) = RemoteTable("000B")
    /\ ~IsNone(monthly_avg)
    /\ athena_table_name = DefaultTable

----------------------------------------------------------------------------
(* Calls that pre_check rejects, under Spec *)

\* heights besides BadHeights that are rejected: a float, and 0
OtherBadHeights == { PyFloat(30), PyInt(0) }

\* C29: a fetch_*_avg_at_height call rejected by pre_check (lat or long missing or not
\* numeric; height missing, not an int, or not a key of the height map) leaves the
\* aggregate state as it was: df, current_lat, current_long, current_height and the four
\* memoized averages keep their values, and no remote execution occurs.
C29_RejectedCallChangesNothing ==
    \A g \in Granularities : \A pt \in PointArgs :
    \A height \in ValidHeights \cup BadHeights \cup OtherBadHeights :
    \A index \in NearestOf(pt) : \A fault \in SessionFaults :
        LET rejected == \/ pt \in BadPoints
                        \/ IsNone(height)
                        \/ height.type # "int"
                        \/ height.v \notin DOMAIN column_mapping.v
            o == CallFetchAvg(g, Self, pt, height, index, fault)
        IN rejected =>
              /\ o.result.kind = "raise"
              /\ o.result.exc.type \in {"ValueError", "TypeError"}
              /\ o.executions = 0
              /\ o.self = Self

\* the table and the four averages of (0.4, 0.4) at 30 m are held; a call for 45 m, which
\* is no key of the height map, raises ValueError and changes nothing
C29_Witness ==
    /\ ~IsNone(df)
    /\ PyEq(current_height, PyInt(30))
    /\ \A k \in Granularities : ~IsNone(Self[k])
    /\ LET o == CallFetchAvg("yearly_avg", Self, <<PyFloat(4), PyFloat(4)>>, PyInt(45),
                             "000A", None)
       IN /\ o.result.kind = "raise"
          /\ o.result.exc.type = "ValueError"
          /\ o.self = Self

----------------------------------------------------------------------------
(* SpecThreads: two threads each make one fetch_*_avg_at_height call on the same
   WindwattsWTKClient, their statements interleaving; no statement waits for the other
   thread. lastCall holds, per thread, the position in its call, its arguments and
   locals, and how its call ended *)

Threads == {1, 2}

IdleThread == [pc |-> "idle"]
InProgress(r) == r.pc \notin {"idle", "done"}

\* thread t takes a statement: the object becomes self and the thread's record next
ThreadStep(t, self, next) ==
    /\ Becomes(self)
    /\ lastCall' = [lastCall EXCEPT !.th[t] = next]
    /\ UNCHANGED qvars

\* the end of a call
Ended(r, result) == [r EXCEPT !.pc = "done", !.result = result]

\* lines 129, 180, 232, 286: a caller enters the method; pre_check
TCall(t) ==
    /\ lastCall.th[t].pc = "idle"
    /\ \E g \in Granularities : \E pt \in ValidPoints : \E height \in ValidHeights :
       \E index \in NearestOf(pt) :
          LET other == CHOOSE u \in Threads : u # t
              e == pre_check(Self, pt[1], pt[2], height)
              r == [pc |-> "reset", g |-> g, pt |-> pt, height |-> height, index |-> index,
                    is_data_fetched |-> FALSE, local_df |-> None, result |-> Pending,
                    memoized |-> None, overlapped |-> InProgress(lastCall.th[other])]
          IN /\ Becomes(Self)
             /\ lastCall' = [lastCall EXCEPT
                   !.th = [u \in Threads |->
                             IF u = t THEN (IF IsNone(e) THEN r ELSE Ended(r, Raised(e)))
                             ELSE IF InProgress(lastCall.th[u])
                             THEN [lastCall.th[u] EXCEPT !.overlapped = TRUE]
                             ELSE lastCall.th[u]]]
             /\ UNCHANGED qvars

\* line 130 (181, 233, 287): reset_averages_if_height_changes
TReset(t) ==
    LET r == lastCall.th[t] IN
    /\ r.pc = "reset"
    /\ ThreadStep(t, reset_averages_if_height_changes(Self, r.height), [r EXCEPT !.pc = "fetch"])

\* fetch_data lines 58-71: the test of line 67, then _reset_index_
TFetch(t) ==
    LET r == lastCall.th[t] IN
    /\ r.pc = "fetch"
    /\ IF is_up_to_date(Self, r.pt[1], r.pt[2])
       THEN ThreadStep(t, Self, [r EXCEPT !.pc = "check", !.is_data_fetched = FALSE])
       ELSE ThreadStep(t, _reset_index_(Self, r.pt[1], r.pt[2]), [r EXCEPT !.pc = "query"])

\* fetch_data lines 73-76: the remote query, into the local df
TQuery(t) ==
    LET r == lastCall.th[t]
        query == SelectQuery(athena_table_name, r.index)
    IN
    /\ r.pc = "query"
    /\ \E fault \in SessionFaults :
          LET res == query_athena([query_string |-> query, convert_to_dataframe |-> TRUE,
                                   return_result_location_only |-> FALSE, reduce_poll |-> TRUE],
                                  TableJob(query), fault)
          IN IF res.kind = "raise"
             THEN ThreadStep(t, Self, [r EXCEPT !.pc = "except"])
             ELSE ThreadStep(t, Self, [r EXCEPT !.pc = "store", !.local_df = res.value])

\* the except clause of the wrapper (lines 134-136): self.df = None, RuntimeError
TExcept(t) ==
    LET r == lastCall.th[t] IN
    /\ r.pc = "except"
    /\ ThreadStep(t, [Self EXCEPT !.df = None],
                  Ended(r, Raised(Exc("RuntimeError", <<"Failed to fetch timeseries data.">>))))

\* fetch_data lines 78-82: the table and the coordinates are stored
TStore(t) ==
    LET r == lastCall.th[t] IN
    /\ r.pc = "store"
    /\ ThreadStep(t, [Self EXCEPT !.df = r.local_df, !.current_lat = r.pt[1],
                                  !.current_long = r.pt[2]],
                  [r EXCEPT !.pc = "check", !.is_data_fetched = TRUE])

\* lines 138-143: no data, or the memo is returned
TCheck(t) ==
    LET r == lastCall.th[t] IN
    /\ r.pc = "check"
    /\ IF IsNone(df) \/ Len(df.rows) = 0
       THEN ThreadStep(t, Self,
                Ended(r, Raised(Exc("RuntimeError", <<"No data available after fetching.">>))))
       ELSE IF ~r.is_data_fetched /\ ~IsNone(Self[r.g])
       THEN ThreadStep(t, Self, Ended(r, Returned(Dict(r.g, Self[r.g]))))
       ELSE ThreadStep(t, Self, [r EXCEPT !.pc = "compute"])

\* the mean of a column without rows
NaN == [type |-> "float", nan |-> TRUE]

\* lines 145-148 (196-201, 248-255, 302-309): the average is computed from self.df and
\* memoized; self.df can have become None, or a table without rows, since the test of
\* line 138
TCompute(t) ==
    LET r == lastCall.th[t]
        col == WindspeedColumn(r.height.v)
    IN
    /\ r.pc = "compute"
    /\ IF IsNone(df)
       THEN ThreadStep(t, Self,
                Ended(r, Raised(IF r.g \in {"monthly_avg", "hourly_avg"}
                                THEN Exc("TypeError", <<"'NoneType' object is not subscriptable">>)
                                ELSE Exc("RuntimeError", <<"Failed to calculate ", r.g, " for ", col>>))))
       ELSE LET table == WithDerivedColumn(r.g, df)
                value == IF r.g = "global_avg" /\ Len(table.rows) = 0 THEN NaN
                         ELSE Average(r.g, table, col)
            IN ThreadStep(t, [Self EXCEPT !.df = table, ![r.g] = value],
                          [r EXCEPT !.pc = "return", !.memoized = value])

\* lines 150-152: the memo field is read again for the value returned
TReturn(t) ==
    LET r == lastCall.th[t] IN
    /\ r.pc = "return"
    /\ ThreadStep(t, Self, Ended(r, Returned(Dict(r.g, Self[r.g]))))

InitThreads ==
    /\ InitQuery /\ InitBase /\ InitSession
    /\ lastCall = [op |-> "threads", th |-> [t \in Threads |-> IdleThread]]

NextThreads ==
    \E t \in Threads :
        \/ TCall(t)
        \/ TReset(t)
        \/ TFetch(t)
        \/ TQuery(t)
        \/ TExcept(t)
        \/ TStore(t)
        \/ TCheck(t)
        \/ TCompute(t)
        \/ TReturn(t)

SpecThreads == InitThreads /\ [][NextThreads]_vars

\* the call of a thread has memoized or returned an average that is not the average of
\* its own location and height (a location without rows has no average)
WrongAverage(r) ==
    LET own == ExpectedAverage(r.g, r.index, r.height)
        has_rows == Len(RemoteTable(r.index).rows) > 0
    IN
    \/ /\ r.pc \in {"return", "done"} /\ ~IsNone(r.memoized)
       /\ (has_rows => r.memoized # own)
    \/ /\ r.pc = "done" /\ r.result.kind = "return"
       /\ (has_rows => r.result.value # Dict(r.g, own))

\* C28: the session has no internal synchronization: when two threads call
\* fetch_*_avg_at_height on one instance with different heights or locations and their
\* statements interleave, a call can memoize or return an average that is not that of
\* its own (location, height); a call that does not overlap the other one never does.
C28_WrongOnlyWhenInterleaved ==
    \A t \in Threads :
        (InProgress(lastCall.th[t]) \/ lastCall.th[t].pc = "done") =>
            (WrongAverage(lastCall.th[t]) => lastCall.th[t].overlapped)

\* thread 1 asked the global average of (0.4, 0.4) at 30 m and thread 2 that of
\* (0.4, 1.2) at 30 m; both calls have returned, and thread 1 got 3.34, the average of
\* the other location, instead of 7.0
C28_Witness ==
    LET r1 == lastCall.th[1]
        r2 == lastCall.th[2]
    IN /\ r1.pc = "done" /\ r2.pc = "done"
       /\ r1.g = "global_avg" /\ r1.index = "000A" /\ r1.height = PyInt(30)
       /\ r2.index = "000B" /\ r2.height = PyInt(30)
       /\ ExpectedAverage("global_avg", "000A", PyInt(30)) = PyFloat(700)
       /\ r1.result = Returned(Dict("global_avg", PyFloat(334)))
       /\ r1.overlapped

====
